---- MODULE Spec2Model ----
(***************************************************************************)
(* Lifecycle coordinator of outpost (src/src/main.rs, the aws arm of       *)
(* main), the stack driver (src/src/aws/mod.rs) and the tunnel handle      *)
(* (src/src/wireguard.rs), together with the remote stack and the          *)
(* wg-quick child process they drive.                                      *)
(*                                                                         *)
(* Every `tokio::select! { step | shutdown.recv() }` of main is modelled   *)
(* as one poll per action: the step future advances to its next await      *)
(* (or finishes), and the shutdown branch is taken as soon as a poll finds *)
(* the receiver ready.  When both are ready in the same poll either branch *)
(* may win, as select! checks its branches in random order.                *)
(*                                                                         *)
(* The local steps have specifications of their own: SubnetSpec (the       *)
(* subnet picker of wireguard.rs), ConfigSpec (validation in config.rs and *)
(* the port mappings of main) and RulesSpec (the PostUp / PreDown lists of *)
(* OriginTunnel::setup run against the host's packet filter and qdiscs).   *)
(***************************************************************************)
EXTENDS Naturals, Sequences, FiniteSets

VARIABLES
    pc,              \* position of main: the await the main task is parked on
    exit,            \* "running", or the ExitCode main returned / error exit
    dashboard,       \* cfg(feature = "dashboard") of the build
    supervisor,      \* the spawned signal task: "listening" or "done"
    chanTail,        \* number of messages ever sent on the broadcast channel
    chanClosed,      \* every Sender of the broadcast channel has been dropped
    rxNext,          \* next position of the receiver used by the current select
    shutdownSeen,    \* the last poll of the current select found recv() ready
    stack,           \* remote: status of the stack named outpost-<host>
    foreign,         \* remote: a stack of that name existed before this run
    createReq,       \* CreateStack request: "idle", "sent", "accepted", "rejected"
    created,         \* remote: CreateStack of this run was accepted
    proxy,           \* the AwsProxy handle: "none" or "handle"
    instance_id,     \* AwsProxy.instance_id: "" or "set"
    launch_time,     \* AwsProxy.launch_time: "" or "set"
    waitResult,      \* result of wait_for_completion: "none", "ok", "err"
    waitLastResp,    \* last DescribeStacks outcome seen by wait_for_completion
    waitError,       \* how wait_for_completion failed, "none" if it did not
    deleteCalls,     \* number of DeleteStack requests issued by this process
    cleanupResult,   \* result of cleanup(): "none", "ok", "err"
    cleanupLastResp, \* last DescribeStacks outcome seen by cleanup()
    wgUpProc,        \* the `wg-quick up` child: "none", "running", "ok", "failed"
    ifaceUp,         \* host: the wg0 interface is up
    tunnel,          \* an OriginTunnel handle exists (interface_up = true)
    wgDownCalls,     \* number of `wg-quick down` invocations
    scratch,         \* the TempDir of OriginTunnel::setup exists on disk
    events,          \* the externally visible calls of the run, in order
    firedAt,         \* pc of main when the shutdown broadcast was published
    cancelledAt,     \* pc of main when a shutdown branch was taken
    signals,         \* number of SIGINT/SIGTERM delivered to the process
    host,            \* IPv4 addresses bound to the host's interfaces
    picked,          \* what find_available_subnet returned
    cfg,             \* ServiceConfig::Aws as given on the command line
    verdict,         \* validate_all: "none", "ok" or the validation that failed
    port_mappings,   \* main's port_mappings: Vec<(u16, String)>
    upload_limit,    \* --upload-limit in Mbps (Option<u32>: a set of at most one)
    download_limit,  \* --download-limit in Mbps
    post_up_rules,   \* the PostUp lines of wg0.conf
    pre_down_rules,  \* the PreDown lines of wg0.conf
    wgStage,         \* "setup", "bail", "config", "up", "failed", "down"
    kernel,          \* host: packet-filter chains, qdiscs, ifb0
    downRuns,        \* number of times the PreDown list has been run
    debug,           \* --debug
    instance_type,   \* --instance-type, as a sequence of characters
    template,        \* the rendered CloudFormation template, if any
    arch,            \* what get_architecture returned, "" before the call
    state_tunnel,    \* AppState.tunnel holds a handle (Option: Some/None)
    listing,         \* what `iptables -L OUTPOST_ACCOUNTING -v -n -x` answers
    response,        \* the StatsResponse of GET /api/stats, if one was sent
    args_verdict,    \* args.validate(): "none", "ok" or "rejected"
    proc_modules,    \* host: /proc/modules (readable or not, and its lines)
    preflight,       \* bandwidth preflight: "none", "passed", "modules_missing", "unreadable"
    arg_parts,       \* an endpoint argument, by the texts it is composed of
    need_port,       \* the require_port argument of Endpoint::parse
    parse_result,    \* what Endpoint::parse returned, if it was called
    wg_keys,         \* WireGuardPair: the keys of origin and proxy
    userdata,        \* the rendered boot script (UserData), a sequence of text pieces
    wg_conf          \* the key lines of wg0.conf, if it was written

vars == <<pc, exit, dashboard, supervisor, chanTail, chanClosed, rxNext,
          shutdownSeen, stack, foreign, createReq, created, proxy, instance_id,
          launch_time, waitResult, waitLastResp, waitError, deleteCalls, cleanupResult,
          cleanupLastResp, wgUpProc, ifaceUp, tunnel, wgDownCalls, scratch, events,
          firedAt, cancelledAt, signals, host, picked, cfg, verdict,
          port_mappings, upload_limit, download_limit, post_up_rules,
          pre_down_rules, wgStage, kernel, downRuns, debug, instance_type,
          template, arch,
          state_tunnel, listing, response,
          args_verdict, proc_modules, preflight,
          arg_parts, need_port, parse_result,
          wg_keys, userdata, wg_conf>>

chanVars  == <<supervisor, chanTail, chanClosed, firedAt, signals>>
awsVars   == <<stack, foreign, createReq, created>>
proxyVars == <<proxy, instance_id, launch_time>>
waitVars  == <<waitResult, waitLastResp, waitError>>
cleanVars == <<deleteCalls, cleanupResult, cleanupLastResp>>
wgVars    == <<wgUpProc, ifaceUp, tunnel, wgDownCalls, scratch>>

\* Inputs and results of the local, pure steps; the lifecycle leaves them alone.
subnetVars == <<host, picked>>
configVars == <<cfg, verdict, port_mappings>>
limitVars  == <<upload_limit, download_limit>>
rulesVars  == <<post_up_rules, pre_down_rules, wgStage, kernel, downRuns>>
templateVars == <<debug, instance_type, template, arch>>
statsVars == <<state_tunnel, listing, response>>
startVars == <<args_verdict, proc_modules, preflight>>
endpointVars == <<arg_parts, need_port, parse_result>>
keyVars == <<wg_keys, userdata, wg_conf>>
pureVars  == <<subnetVars, configVars, limitVars, keyVars, endpointVars, startVars, statsVars, rulesVars,
               templateVars>>
fixedVars == <<dashboard, pureVars>>
\* fixedVars without the tunnel slot of AppState, which main fills.
fixedButSlot == <<dashboard, subnetVars, configVars, limitVars, keyVars, endpointVars,
                  startVars, listing, response, rulesVars, templateVars>>
mainVars  == <<pc, exit, dashboard, chanVars, rxNext, shutdownSeen, awsVars,
               proxyVars, waitVars, cleanVars, wgVars, events, cancelledAt>>

-----------------------------------------------------------------------------
(* The shutdown broadcast channel *)

\* As RecvReady, but a receiver of a closed channel keeps waiting.
RecvReadyMessageOnly(next) == next < chanTail

\* broadcast::Receiver::recv() is ready when a message lies at or after the
\* receiver's position, or when the channel is closed (Err(Closed)); the
\* select! pattern `_ = rx.recv()` matches either.
RecvReady(next) == next < chanTail \/ chanClosed

\* Receiver::resubscribe(): a new receiver starting from the current tail.
Resubscribe == chanTail

-----------------------------------------------------------------------------
(* DescribeStacks outcomes and their classification *)

InProgress == {"CREATE_IN_PROGRESS", "DELETE_IN_PROGRESS"}

FailedStatuses == {"CREATE_FAILED", "ROLLBACK_COMPLETE", "ROLLBACK_FAILED",
                   "ROLLBACK_IN_PROGRESS", "DELETE_FAILED", "DELETE_COMPLETE"}

DescribeErrors == {"ERR_DISAPPEARED", "ERR_VALIDATION", "ERR_TRANSIENT"}

\* The substrings the code looks for in format!("{:?}", err).
ErrText(e) ==
    CASE e = "ERR_DISAPPEARED" -> {"ValidationError", "does not exist", "Stack with id"}
      [] e = "ERR_VALIDATION"  -> {"ValidationError"}
      [] OTHER                 -> {}

\* What DescribeStacks by name can answer for remote status s: the status,
\* "does not exist" for a missing stack, or a failed call.
DescribeOutcomes(s) ==
    (IF s = "NONE" THEN {"ERR_DISAPPEARED"} ELSE {s})
        \cup {"ERR_VALIDATION", "ERR_TRANSIENT"}

\* wait_for_completion, Err arm of describe_stacks: both arms return Err.
WaitOnError(e) ==
    IF "ValidationError" \in ErrText(e) /\ "does not exist" \in ErrText(e)
    THEN "fail_disappeared"
    ELSE "fail_describe"

WaitOnStatusLoose(s) ==
    CASE s = "CREATE_COMPLETE" -> "complete"
      [] s \in FailedStatuses  -> "fail_status"
      [] OTHER                 -> "complete"

\* As WaitOnStatus with ROLLBACK_IN_PROGRESS among the statuses that poll on.
WaitOnStatusRollbackPolls(s) ==
    CASE s = "CREATE_COMPLETE" -> "complete"
      [] s \in InProgress \cup {"ROLLBACK_IN_PROGRESS"} -> "sleep"
      [] s \in FailedStatuses  -> "fail_status"
      [] OTHER                 -> "fail_unexpected"

\* wait_for_completion, match on the stack status.
WaitOnStatus(s) ==
    CASE s = "CREATE_COMPLETE" -> "complete"
      [] s \in InProgress      -> "sleep"
      [] s \in FailedStatuses  -> "fail_status"
      [] OTHER                 -> "fail_unexpected"

WaitClassify(r) ==
    IF r \in DescribeErrors THEN WaitOnError(r) ELSE WaitOnStatus(r)

CleanupOnErrorStrict(e) == "err"

\* cleanup, Err arm of describe_stacks.
CleanupOnError(e) ==
    IF \/ "ValidationError" \in ErrText(e)
       \/ "does not exist" \in ErrText(e)
       \/ "Stack with id" \in ErrText(e)
    THEN "ok"
    ELSE "err"

\* cleanup, match on the stack status.
CleanupOnStatus(s) ==
    CASE s = "DELETE_COMPLETE"    -> "ok"
      [] s = "DELETE_IN_PROGRESS" -> "sleep"
      [] s = "DELETE_FAILED"      -> "err"
      [] OTHER                    -> "err"

CleanupClassify(r) ==
    IF r \in DescribeErrors THEN CleanupOnError(r) ELSE CleanupOnStatus(r)

CleanupExitCodePropagated(res) == IF res = "err" THEN "FAILURE" ELSE "SUCCESS"

\* main after `if let Err(e) = proxy.cleanup().await { warn!(..) }`:
\* the error is logged and main returns Ok(ExitCode::SUCCESS).
CleanupExitCode(res) == "SUCCESS"

-----------------------------------------------------------------------------
(* Leaving main *)

\* main returns (or `?` propagates an error): the owned OriginTunnel, if any,
\* is dropped, and its Drop runs `wg-quick down`; the TempDir goes with its
\* owner, the handle or the setup future.
Return(code, ev) ==
    /\ pc' = "done"
    /\ exit' = code
    /\ shutdownSeen' = FALSE
    /\ scratch' = FALSE
    /\ IF tunnel
       THEN /\ events' = Append(ev, "WgDown")
            /\ tunnel' = FALSE
            /\ ifaceUp' = FALSE
            /\ wgDownCalls' = wgDownCalls + 1
       ELSE /\ events' = ev
            /\ UNCHANGED <<tunnel, ifaceUp, wgDownCalls>>

\* A step of a select! advanced to a new await: the same poll then checks the
\* shutdown branch.
Park(next, rx) ==
    /\ pc' = next
    /\ rxNext' = rx
    /\ shutdownSeen' = RecvReady(rx)

\* Entering proxy.cleanup(): DeleteStack is sent first.
EnterCleanup ==
    /\ pc' = "cleanup_delete"
    /\ shutdownSeen' = FALSE
    /\ cancelledAt' = pc
    /\ deleteCalls' = deleteCalls + 1
    /\ events' = Append(events, "DeleteStack")

-----------------------------------------------------------------------------
(* Configuration: endpoints and validation (config.rs) *)

\* An endpoint argument is described by what url::Url::parse finds in it: the
\* scheme as typed, whether there is a host, and the port, if any (a set of at
\* most one number stands for Option<u16>).

\* str::to_lowercase on the schemes used here.
ToLowercase(s) == IF s = "TCP" THEN "tcp" ELSE s

\* Url::parse rejects a port that does not fit in u16.
UrlParses(s) == \A p \in s.port : p < 65536

ParseError == [ok |-> FALSE, protocol |-> "", port |-> {}]

\* Endpoint::parse(s, require_port)
EndpointParse(s, require_port) ==
    IF ~UrlParses(s) THEN ParseError
    ELSE IF ToLowercase(s.scheme) \notin {"tcp", "udp", "tls"} THEN ParseError
    ELSE IF ~s.host THEN ParseError
    ELSE IF require_port /\ s.port = {} THEN ParseError
    ELSE [ok |-> TRUE, protocol |-> ToLowercase(s.scheme), port |-> s.port]

\* ServiceConfig::ingresses()
Ingresses(c) ==
    IF c.ingress = <<>> THEN [ok |-> FALSE, list |-> <<>>]
    ELSE IF \E i \in 1..Len(c.ingress) : ~EndpointParse(c.ingress[i], TRUE).ok
         THEN [ok |-> FALSE, list |-> <<>>]
         ELSE [ok |-> TRUE,
               list |-> [i \in 1..Len(c.ingress) |-> EndpointParse(c.ingress[i], TRUE)]]

\* ServiceConfig::origin()
Origin(c) ==
    LET require_port == Len(c.ingress) = 1
        endpoint     == EndpointParse(c.origin, require_port)
    IN  IF ~endpoint.ok THEN ParseError
        ELSE IF Len(c.ingress) > 1 /\ endpoint.port # {} THEN ParseError
        ELSE endpoint

\* Validate for ServiceConfig: validate_ingress_list
Validate(c) == c.ingress # <<>>

ValidateProtocolsIngressOnly(c) ==
    LET ingresses == Ingresses(c)
        origin    == Origin(c)
    IN  /\ ingresses.ok
        /\ origin.ok
        /\ \A i \in 2..Len(ingresses.list) :
               ingresses.list[i].protocol = ingresses.list[1].protocol

\* ServiceConfig::validate_protocols: TRUE for Ok(())
ValidateProtocols(c) ==
    LET ingresses == Ingresses(c)
        origin    == Origin(c)
    IN  /\ ingresses.ok
        /\ origin.ok
        /\ \A i \in 2..Len(ingresses.list) :
               ingresses.list[i].protocol = ingresses.list[1].protocol
        /\ origin.protocol = ingresses.list[1].protocol

ValidateTlsSkipped(c) == TRUE

\* ServiceConfig::validate_tls_single_endpoint
ValidateTlsSingleEndpoint(c) ==
    IF Len(c.ingress) > 1
    THEN LET first == EndpointParse(c.ingress[1], TRUE)
         IN  first.ok /\ first.protocol # "tls"
    ELSE TRUE

ValidateCloudfrontAnyPort(c) ==
    IF c.use_cloudfront
    THEN IF Len(c.ingress) > 1 THEN FALSE
         ELSE EndpointParse(c.ingress[1], TRUE).ok
    ELSE TRUE

\* ServiceConfig::validate_cloudfront
ValidateCloudfront(c) ==
    IF c.use_cloudfront
    THEN IF Len(c.ingress) > 1 THEN FALSE
         ELSE LET endpoint == EndpointParse(c.ingress[1], TRUE)
              IN  endpoint.ok /\ \A port \in endpoint.port : port = 443
    ELSE TRUE

\* ServiceConfig::validate_all: "ok", or the validation whose error is returned.
ValidateAll(c) ==
    IF ~Validate(c) THEN "validate"
    ELSE IF ~ValidateProtocols(c) THEN "validate_protocols"
    ELSE IF ~ValidateTlsSingleEndpoint(c) THEN "validate_tls_single_endpoint"
    ELSE IF ~ValidateCloudfront(c) THEN "validate_cloudfront"
    ELSE "ok"

\* main: the port mappings built from ingresses() and origin().
PortMappings(c) ==
    LET ingresses == Ingresses(c).list
        origin    == Origin(c)
    IN  [i \in 1..Len(ingresses) |->
            [port     |-> IF origin.port # {}
                          THEN CHOOSE origin_port \in origin.port : TRUE
                          ELSE CHOOSE p \in ingresses[i].port : TRUE,
             protocol |-> ingresses[i].protocol]]

-----------------------------------------------------------------------------
(* Initial states *)

LifecycleIdle ==
    /\ exit = "running"
    /\ dashboard \in BOOLEAN
    /\ supervisor = "listening"
    /\ chanTail = 0
    /\ chanClosed = FALSE
    /\ rxNext = 0
    /\ shutdownSeen = FALSE
    /\ foreign \in BOOLEAN
    /\ stack = IF foreign THEN "CREATE_COMPLETE" ELSE "NONE"
    /\ createReq = "idle"
    /\ created = FALSE
    /\ proxy = "none"
    /\ instance_id = ""
    /\ launch_time = ""
    /\ waitResult = "none"
    /\ waitLastResp = "none"
    /\ waitError = "none"
    /\ deleteCalls = 0
    /\ cleanupResult = "none"
    /\ cleanupLastResp = "none"
    /\ wgUpProc = "none"
    /\ ifaceUp = FALSE
    /\ tunnel = FALSE
    /\ wgDownCalls = 0
    /\ scratch = FALSE
    /\ events = <<>>
    /\ firedAt = "none"
    /\ cancelledAt = "none"
    /\ signals = 0

\* main at the first step after the port mappings were built.
MainInit ==
    /\ pc = "keygen"
    /\ LifecycleIdle

NotPicked == [status |-> "none", proxy_ip |-> <<>>, origin_ip |-> <<>>]

SubnetIdle ==
    /\ host = {}
    /\ picked = NotPicked

\* --ingress tcp://host:443 --origin tcp://host:80, validated and mapped.
DefaultCfg ==
    [ingress |-> <<[scheme |-> "tcp", host |-> TRUE, port |-> {443}]>>,
     origin |-> [scheme |-> "tcp", host |-> TRUE, port |-> {80}],
     use_cloudfront |-> FALSE]

ConfigDone ==
    /\ cfg = DefaultCfg
    /\ verdict = ValidateAll(cfg)
    /\ port_mappings = PortMappings(cfg)

\* No bandwidth limit given; wg0.conf not written yet; a host without any
\* rule, user chain or qdisc of outpost.
CleanKernel ==
    [chains |-> [c \in {"INPUT", "FORWARD", "PREROUTING", "POSTROUTING",
                        "OUTPOST_ACCOUNTING"} |-> <<>>],
     accounting_chain |-> FALSE,
     qdiscs |-> {},
     classes |-> {},
     filters |-> {},
     ifb_loaded |-> FALSE,
     ifb0_up |-> FALSE]

NoLimits ==
    /\ upload_limit = {}
    /\ download_limit = {}

\* The default instance type of the command line, "t4g.nano".
T4gNano == <<"t", "4", "g", ".", "n", "a", "n", "o">>

\* No --debug, the default instance type, nothing rendered yet.
TemplateIdle ==
    /\ debug = FALSE
    /\ instance_type = T4gNano
    /\ template = {}
    /\ arch = ""

\* No dashboard request yet: the slot is empty and nothing was listed.
StatsIdle ==
    /\ state_tunnel = FALSE
    /\ listing = [success |-> FALSE, lines |-> <<>>]
    /\ response = {}

\* A line of /proc/modules: the module's name, then its size, use count,
\* dependencies and state.
ModuleLine(name) == name \o <<" ", "1", " ", "0", " ", "-">>

SchHtb == <<"s", "c", "h", "_", "h", "t", "b">>

Ifb == <<"i", "f", "b">>

ActMirred == <<"a", "c", "t", "_", "m", "i", "r", "r", "e", "d">>

\* The command line was accepted and the shaping modules are loaded.
StartIdle ==
    /\ args_verdict = "ok"
    /\ proc_modules = [readable |-> TRUE,
                       lines |-> {ModuleLine(SchHtb), ModuleLine(Ifb),
                                  ModuleLine(ActMirred)}]
    /\ preflight = "passed"

\* Endpoint::parse has not been called.
EndpointIdle ==
    /\ arg_parts = [scheme |-> <<>>, sep |-> <<>>, host |-> <<>>, port |-> <<>>]
    /\ need_port = FALSE
    /\ parse_result = {}

\* The keys that `wg genkey`, `wg pubkey` and `wg genpsk` print for a side.
Keys(private, public, preshared) ==
    [private_key |-> private, public_key |-> public, preshared_key |-> preshared]

\* `wg pubkey`: the public key is a function of the private key.
WgPubkey(private) ==
    CASE private = "origin-private-1" -> "origin-public-1"
      [] private = "origin-private-2" -> "origin-public-2"
      [] private = "proxy-private-1"  -> "proxy-public-1"
      [] private = "proxy-private-2"  -> "proxy-public-2"

\* WireGuardKeys::generate for one side: `wg genkey`, `wg pubkey` and
\* `wg genpsk` are run anew at every call, so the two sides get different
\* private keys and different preshared keys.
GeneratedKeys(side) ==
    IF side = "origin"
    THEN {Keys(k, WgPubkey(k), p) : k \in {"origin-private-1", "origin-private-2"},
                                    p \in {"psk-1", "psk-2"}}
    ELSE {Keys(k, WgPubkey(k), p) : k \in {"proxy-private-1", "proxy-private-2"},
                                    p \in {"psk-3", "psk-4"}}

\* WireGuardPair::generate
GeneratedPairs ==
    {[origin |-> o, proxy |-> x] : o \in GeneratedKeys("origin"),
                                   x \in GeneratedKeys("proxy")}

\* A generated pair; nothing rendered or written yet.
KeysIdle ==
    /\ wg_keys = [origin |-> Keys("origin-private-1", WgPubkey("origin-private-1"), "psk-1"),
                  proxy  |-> Keys("proxy-private-1", WgPubkey("proxy-private-1"), "psk-3")]
    /\ userdata = <<>>
    /\ wg_conf = {}

RulesIdle ==
    /\ post_up_rules = <<>>
    /\ pre_down_rules = <<>>
    /\ wgStage = "setup"
    /\ kernel = CleanKernel
    /\ downRuns = 0

Init ==
    /\ MainInit
    /\ SubnetIdle
    /\ ConfigDone
    /\ NoLimits
    /\ KeysIdle
    /\ EndpointIdle
    /\ StartIdle
    /\ StatsIdle
    /\ RulesIdle
    /\ TemplateIdle

-----------------------------------------------------------------------------
(* The supervisor task *)

\* Number of signals the operator sends during one run.
MaxSignals == 2

SupervisorListensAgain == "listening"

\* The signal task after `let _ = shutdown_tx.send(());`: the async block
\* ends, the task is finished and its Sender dropped.
SupervisorAfterSend == "done"

\* Ctrl+C or SIGTERM arrives: the task sends () on the channel and ends,
\* which drops the only Sender.
Signal ==
    /\ supervisor = "listening"
    /\ pc # "done"
    /\ signals < MaxSignals
    /\ signals' = signals + 1
    /\ supervisor' = SupervisorAfterSend
    /\ chanTail' = chanTail + 1
    /\ chanClosed' = (SupervisorAfterSend = "done")
    /\ firedAt' = pc
    /\ UNCHANGED <<pc, exit, fixedVars, rxNext, shutdownSeen, awsVars,
                   proxyVars, waitVars, cleanVars, wgVars, events, cancelledAt>>

\* A further signal after the task has ended: the handlers installed by
\* signal::ctrl_c() and signal::unix::signal() stay registered for the life
\* of the process and nothing listens to them, so the signal is swallowed.
LateSignal ==
    /\ supervisor = "done"
    /\ pc # "done"
    /\ signals < MaxSignals
    /\ signals' = signals + 1
    /\ UNCHANGED <<pc, exit, fixedVars, supervisor, chanTail, chanClosed,
                   firedAt, rxNext, shutdownSeen, awsVars, proxyVars,
                   waitVars, cleanVars, wgVars, events, cancelledAt>>

-----------------------------------------------------------------------------
(* main: local steps before the first select! *)

KeyGen ==
    /\ pc = "keygen"
    /\ \E ok \in BOOLEAN :
         IF ok
         THEN /\ pc' = "subnet"
              /\ UNCHANGED <<exit, shutdownSeen, events, wgVars>>
         ELSE Return("FAILURE", events)
    /\ UNCHANGED <<fixedVars, chanVars, rxNext, awsVars, proxyVars, waitVars,
                   cleanVars, wgUpProc, cancelledAt>>

PickSubnet ==
    /\ pc = "subnet"
    /\ \E ok \in BOOLEAN :
         IF ok
         THEN /\ Park("ip_detect", rxNext)
              /\ UNCHANGED <<exit, events, wgVars>>
         ELSE /\ Return("FAILURE", events)
              /\ UNCHANGED rxNext
    /\ UNCHANGED <<fixedVars, chanVars, awsVars, proxyVars, waitVars,
                   cleanVars, wgUpProc, cancelledAt>>

-----------------------------------------------------------------------------
(* main: select! { reqwest::get(ipify) | shutdown_rx.recv() } *)

IpDetect ==
    /\ pc = "ip_detect"
    /\ ~shutdownSeen
    /\ \E ok \in BOOLEAN :
         IF ok
         THEN /\ Park("deploy_zone", Resubscribe)
              /\ UNCHANGED <<exit, events, wgVars>>
         ELSE /\ Return("FAILURE", events)
              /\ UNCHANGED rxNext
    /\ UNCHANGED <<fixedVars, chanVars, awsVars, proxyVars, waitVars,
                   cleanVars, wgUpProc, cancelledAt>>

CancelIpDetect ==
    /\ pc = "ip_detect"
    /\ RecvReady(rxNext)
    /\ cancelledAt' = pc
    /\ Return("SUCCESS", events)
    /\ UNCHANGED <<fixedVars, chanVars, rxNext, awsVars, proxyVars, waitVars,
                   cleanVars, wgUpProc>>

-----------------------------------------------------------------------------
(* main: select! { AwsProxy::deploy(..) | shutdown_rx2.recv() } *)

DeployPcs == {"deploy_zone", "deploy_ami", "deploy_create"}

\* validate_route53_configuration: get_hosted_zone and the subdomain test.
DeployZone ==
    /\ pc = "deploy_zone"
    /\ ~shutdownSeen
    /\ \E ok \in BOOLEAN :
         IF ok
         THEN /\ Park("deploy_ami", rxNext)
              /\ UNCHANGED <<exit, events, wgVars>>
         ELSE /\ Return("FAILURE", events)
              /\ UNCHANGED rxNext
    /\ UNCHANGED <<fixedVars, chanVars, awsVars, proxyVars, waitVars,
                   cleanVars, wgUpProc, cancelledAt>>

\* get_latest_nixos_ami answered, the template is rendered and the
\* CreateStack request future is created.  The request reaches the service
\* only if the future outlives this poll: when the same poll finds the
\* shutdown branch ready the future is dropped before anything is written.
DeployAmi ==
    /\ pc = "deploy_ami"
    /\ ~shutdownSeen
    /\ \E ok \in BOOLEAN :
         IF ok
         THEN /\ Park("deploy_create", rxNext)
              /\ createReq' = IF RecvReady(rxNext) THEN createReq ELSE "sent"
              /\ events' = IF RecvReady(rxNext) THEN events
                                               ELSE Append(events, "CreateStack")
              /\ UNCHANGED <<exit, wgVars>>
         ELSE /\ Return("FAILURE", events)
              /\ UNCHANGED <<rxNext, createReq>>
    /\ UNCHANGED <<fixedVars, chanVars, stack, foreign, created, proxyVars,
                   waitVars, cleanVars, wgUpProc, cancelledAt>>

\* The CreateStack response arrives: Ok builds the AwsProxy handle with empty
\* instance_id and launch_time; Err is propagated by `?`.
DeployCreated ==
    /\ pc = "deploy_create"
    /\ ~shutdownSeen
    /\ createReq \in {"accepted", "rejected"}
    /\ IF createReq = "accepted"
       THEN /\ proxy' = "handle"
            /\ instance_id' = ""
            /\ launch_time' = ""
            /\ Park("wait_describe", Resubscribe)
            /\ UNCHANGED <<exit, events, wgVars>>
       ELSE /\ Return("FAILURE", events)
            /\ UNCHANGED <<rxNext, proxyVars>>
    /\ UNCHANGED <<fixedVars, chanVars, awsVars, waitVars, cleanVars,
                   wgUpProc, cancelledAt>>

\* As CancelDeploy, but the shutdown branch calls cleanup() by stack name
\* although deploy has not returned a handle.
CancelDeployDeletes ==
    /\ pc \in DeployPcs
    /\ RecvReady(rxNext)
    /\ EnterCleanup
    /\ UNCHANGED <<exit, fixedVars, chanVars, rxNext, awsVars, proxyVars,
                   waitVars, cleanupResult, cleanupLastResp, wgVars>>

\* The shutdown branch of the deploy select: the deploy future is dropped
\* where it stands and main returns Ok(ExitCode::SUCCESS).
CancelDeploy ==
    /\ pc \in DeployPcs
    /\ RecvReady(rxNext)
    /\ cancelledAt' = pc
    /\ Return("SUCCESS", events)
    /\ UNCHANGED <<fixedVars, chanVars, rxNext, awsVars, proxyVars, waitVars,
                   cleanVars, wgUpProc>>

-----------------------------------------------------------------------------
(* main: select! { proxy.wait_for_completion() | shutdown_rx3.recv() } *)

WaitPcs == {"wait_describe", "wait_sleep", "wait_launch"}

StackOutputs == {"ProxyPublicIP", "ProxyInstanceId"}

\* One iteration of the poll loop, from the DescribeStacks answer to the
\* next await or to the return.
WaitDescribe ==
    /\ pc = "wait_describe"
    /\ ~shutdownSeen
    /\ \E r \in DescribeOutcomes(stack), outs \in SUBSET StackOutputs :
         /\ waitLastResp' = r
         /\ CASE WaitClassify(r) = "complete" /\ outs = StackOutputs ->
                   /\ Park("wait_launch", rxNext)
                   /\ UNCHANGED <<exit, events, wgVars, waitResult, waitError>>
              [] WaitClassify(r) = "sleep" ->
                   /\ Park("wait_sleep", rxNext)
                   /\ UNCHANGED <<exit, events, wgVars, waitResult, waitError>>
              [] OTHER ->
                   /\ waitResult' = "err"
                   /\ waitError' = IF WaitClassify(r) = "complete"
                                   THEN "fail_outputs" ELSE WaitClassify(r)
                   /\ Return("FAILURE", events)
                   /\ UNCHANGED rxNext
    /\ UNCHANGED <<fixedVars, chanVars, awsVars, proxyVars, cleanVars,
                   wgUpProc, cancelledAt>>

\* tokio::time::sleep(5 s) elapsed.
WaitSleep ==
    /\ pc = "wait_sleep"
    /\ ~shutdownSeen
    /\ Park("wait_describe", rxNext)
    /\ UNCHANGED <<exit, fixedVars, chanVars, awsVars, proxyVars, waitVars,
                   cleanVars, wgVars, events, cancelledAt>>

\* As WaitLaunch, but instance_id is stored before fetch_launch_time is
\* awaited, so a failed lookup leaves it set.
WaitLaunchStoresIdFirst ==
    /\ pc = "wait_launch"
    /\ ~shutdownSeen
    /\ \E ok \in BOOLEAN :
         IF ok
         THEN /\ instance_id' = "set"
              /\ launch_time' = "set"
              /\ waitResult' = "ok"
              /\ Park("setup_which", Resubscribe)
              /\ scratch' = TRUE
              /\ UNCHANGED <<exit, events, wgUpProc, ifaceUp, tunnel,
                             wgDownCalls, waitError>>
         ELSE /\ waitResult' = "err"
              /\ waitError' = "fail_launch_time"
              /\ Return("FAILURE", events)
              /\ instance_id' = "set"
              /\ UNCHANGED <<rxNext, launch_time>>
    /\ UNCHANGED <<fixedVars, chanVars, awsVars, proxy, waitLastResp,
                   cleanVars, wgUpProc, cancelledAt>>

\* fetch_launch_time answered: the metadata is stored and Ok(proxy_ip)
\* returned, or the error is propagated.
WaitLaunch ==
    /\ pc = "wait_launch"
    /\ ~shutdownSeen
    /\ \E ok \in BOOLEAN :
         IF ok
         THEN /\ instance_id' = "set"
              /\ launch_time' = "set"
              /\ waitResult' = "ok"
              /\ Park("setup_which", Resubscribe)
              /\ scratch' = TRUE
              /\ UNCHANGED <<exit, events, wgUpProc, ifaceUp, tunnel,
                             wgDownCalls, waitError>>
         ELSE /\ waitResult' = "err"
              /\ waitError' = "fail_launch_time"
              /\ Return("FAILURE", events)
              /\ UNCHANGED <<rxNext, instance_id, launch_time>>
    /\ UNCHANGED <<fixedVars, chanVars, awsVars, proxy, waitLastResp,
                   cleanVars, wgUpProc, cancelledAt>>

CancelWait ==
    /\ pc \in WaitPcs
    /\ RecvReady(rxNext)
    /\ EnterCleanup
    /\ UNCHANGED <<exit, fixedVars, chanVars, rxNext, awsVars, proxyVars,
                   waitVars, cleanupResult, cleanupLastResp, wgVars>>

-----------------------------------------------------------------------------
(* main: select! { OriginTunnel::setup(..) | shutdown_rx4.recv() } *)

SetupPcs == {"setup_which", "setup_up"}

\* setup bails before writing wg0.conf on an empty list or a protocol other
\* than tcp / udp.
SetupBails(pm) ==
    \/ pm = <<>>
    \/ \E i \in 1..Len(pm) : ToLowercase(pm[i].protocol) \notin {"tcp", "udp"}

\* As SetupUp, but the handle is built whatever `wg-quick up` returned.
SetupUpIgnoresStatus ==
    /\ pc = "setup_up"
    /\ ~shutdownSeen
    /\ wgUpProc \in {"ok", "failed"}
    /\ tunnel' = TRUE
    /\ events' = Append(events, "TunnelUp")
    /\ pc' = IF dashboard THEN "dash_bind" ELSE "idle"
    /\ rxNext' = IF dashboard THEN rxNext ELSE Resubscribe
    /\ shutdownSeen' = FALSE
    /\ state_tunnel' = dashboard
    /\ UNCHANGED <<exit, ifaceUp, wgDownCalls, scratch>>
    /\ UNCHANGED <<fixedButSlot, chanVars, awsVars, proxyVars, waitVars,
                   cleanVars, wgUpProc, cancelledAt>>

\* setup bails on its mapping list, or the configuration is written and
\* `which wg-quick` answered; when found, the `wg-quick up` child is spawned.
SetupWhich ==
    /\ pc = "setup_which"
    /\ ~shutdownSeen
    /\ \E found \in BOOLEAN :
         IF found /\ ~SetupBails(port_mappings)
         THEN /\ Park("setup_up", rxNext)
              /\ wgUpProc' = "running"
              /\ events' = Append(events, "WgQuickUp")
              /\ UNCHANGED <<exit, ifaceUp, tunnel, wgDownCalls, scratch>>
         ELSE /\ Return("FAILURE", events)
              /\ UNCHANGED <<rxNext, wgUpProc>>
    /\ UNCHANGED <<fixedVars, chanVars, awsVars, proxyVars, waitVars,
                   cleanVars, cancelledAt>>

\* `wg-quick up` exited: success builds the OriginTunnel handle.  With the
\* dashboard main wraps the handle in an Arc, stores a clone in the tunnel
\* slot of AppState, builds the router and goes on to bind the listener;
\* without it main parks on shutdown_rx5.recv().
SetupUp ==
    /\ pc = "setup_up"
    /\ ~shutdownSeen
    /\ wgUpProc \in {"ok", "failed"}
    /\ IF wgUpProc = "ok"
       THEN /\ tunnel' = TRUE
            /\ events' = Append(events, "TunnelUp")
            /\ pc' = IF dashboard THEN "dash_bind" ELSE "idle"
            /\ rxNext' = IF dashboard THEN rxNext ELSE Resubscribe
            /\ shutdownSeen' = FALSE
            /\ state_tunnel' = dashboard
            /\ UNCHANGED <<exit, ifaceUp, wgDownCalls, scratch>>
       ELSE /\ Return("FAILURE", events)
            /\ UNCHANGED <<rxNext, state_tunnel>>
    /\ UNCHANGED <<fixedButSlot, chanVars, awsVars, proxyVars, waitVars,
                   cleanVars, wgUpProc, cancelledAt>>

\* The shutdown branch of the setup select: the setup future is dropped, and
\* its TempDir with it; a `wg-quick up` child that was spawned runs on.
CancelSetup ==
    /\ pc \in SetupPcs
    /\ RecvReady(rxNext)
    /\ EnterCleanup
    /\ scratch' = FALSE
    /\ UNCHANGED <<exit, fixedVars, chanVars, rxNext, awsVars, proxyVars,
                   waitVars, cleanupResult, cleanupLastResp, wgUpProc,
                   ifaceUp, tunnel, wgDownCalls>>

-----------------------------------------------------------------------------
(* main: the tunnel is up *)

\* cfg(feature = "dashboard"): TcpListener::bind("0.0.0.0:3000").await?
DashBind ==
    /\ pc = "dash_bind"
    /\ \E ok \in BOOLEAN :
         IF ok
         THEN /\ pc' = "serve"
              /\ rxNext' = Resubscribe
              /\ UNCHANGED <<exit, shutdownSeen, events, wgVars>>
         ELSE /\ Return("FAILURE", events)
              /\ UNCHANGED rxNext
    /\ UNCHANGED <<fixedVars, chanVars, awsVars, proxyVars, waitVars,
                   cleanVars, wgUpProc, cancelledAt>>

\* axum::serve(..).with_graceful_shutdown(shutdown_rx5.recv()) returned:
\* main calls proxy.cleanup().
ServeShutdown ==
    /\ pc = "serve"
    /\ RecvReady(rxNext)
    /\ EnterCleanup
    /\ UNCHANGED <<exit, fixedVars, chanVars, rxNext, awsVars, proxyVars,
                   waitVars, cleanupResult, cleanupLastResp, wgVars>>

\* cfg(not(feature = "dashboard")): shutdown_rx5.recv().await returned.
IdleShutdown ==
    /\ pc = "idle"
    /\ RecvReady(rxNext)
    /\ EnterCleanup
    /\ UNCHANGED <<exit, fixedVars, chanVars, rxNext, awsVars, proxyVars,
                   waitVars, cleanupResult, cleanupLastResp, wgVars>>

-----------------------------------------------------------------------------
(* AwsProxy::cleanup, awaited by main outside any select! *)

\* The DeleteStack answer: Err returns from cleanup; Ok starts the polling.
\* main logs a cleanup error, drops the tunnel (explicitly with the
\* dashboard, at scope end without) and returns.
CleanupDelete ==
    /\ pc = "cleanup_delete"
    /\ \E ok \in BOOLEAN :
         IF ok
         THEN /\ stack' = IF stack \in {"NONE", "DELETE_COMPLETE"}
                          THEN stack ELSE "DELETE_IN_PROGRESS"
              /\ pc' = "cleanup_describe"
              /\ UNCHANGED <<exit, shutdownSeen, events, wgVars, cleanupResult>>
         ELSE /\ cleanupResult' = "err"
              /\ Return(CleanupExitCode("err"), events)
              /\ UNCHANGED stack
    /\ UNCHANGED <<fixedVars, chanVars, rxNext, foreign, createReq, created,
                   proxyVars, waitVars, deleteCalls, cleanupLastResp,
                   wgUpProc, cancelledAt>>

CleanupDescribe ==
    /\ pc = "cleanup_describe"
    /\ \E r \in DescribeOutcomes(stack) :
         /\ cleanupLastResp' = r
         /\ IF CleanupClassify(r) = "sleep"
            THEN /\ pc' = "cleanup_sleep"
                 /\ UNCHANGED <<exit, shutdownSeen, events, wgVars, cleanupResult>>
            ELSE /\ cleanupResult' = CleanupClassify(r)
                 /\ Return(CleanupExitCode(CleanupClassify(r)), events)
    /\ UNCHANGED <<fixedVars, chanVars, rxNext, awsVars, proxyVars, waitVars,
                   deleteCalls, wgUpProc, cancelledAt>>

CleanupSleep ==
    /\ pc = "cleanup_sleep"
    /\ pc' = "cleanup_describe"
    /\ UNCHANGED <<exit, fixedVars, chanVars, rxNext, shutdownSeen, awsVars,
                   proxyVars, waitVars, cleanVars, wgVars, events, cancelledAt>>

-----------------------------------------------------------------------------
(* The environment: the remote stack service and the wg-quick child *)

\* The service handles the CreateStack request: a name already in use is
\* rejected, otherwise the request is accepted or rejected.
AwsCreateStack ==
    /\ createReq = "sent"
    /\ \E accept \in BOOLEAN :
         IF accept /\ stack = "NONE"
         THEN /\ createReq' = "accepted"
              /\ stack' = "CREATE_IN_PROGRESS"
              /\ created' = TRUE
         ELSE /\ createReq' = "rejected"
              /\ UNCHANGED <<stack, created>>
    /\ UNCHANGED <<pc, exit, fixedVars, chanVars, rxNext, shutdownSeen,
                   foreign, proxyVars, waitVars, cleanVars, wgVars, events,
                   cancelledAt>>

\* Progress of the stack created with OnFailure::Delete.
AwsSuccessors(s) ==
    CASE s = "CREATE_IN_PROGRESS" -> {"CREATE_COMPLETE", "CREATE_FAILED"}
      [] s = "CREATE_FAILED"      -> {"DELETE_IN_PROGRESS"}
      [] s = "DELETE_IN_PROGRESS" -> {"DELETE_COMPLETE", "DELETE_FAILED"}
      [] s = "DELETE_COMPLETE"    -> {"NONE"}
      [] OTHER                    -> {}

AwsProgress ==
    /\ created
    /\ \E s \in AwsSuccessors(stack) : stack' = s
    /\ UNCHANGED <<pc, exit, fixedVars, chanVars, rxNext, shutdownSeen,
                   foreign, createReq, created, proxyVars, waitVars,
                   cleanVars, wgVars, events, cancelledAt>>

\* The `wg-quick up` child exits; it is not killed when the setup future is
\* dropped.
WgQuickUpRun ==
    /\ wgUpProc = "running"
    /\ \E ok \in BOOLEAN :
         /\ wgUpProc' = IF ok THEN "ok" ELSE "failed"
         /\ ifaceUp' = ok
    /\ UNCHANGED <<pc, exit, fixedVars, chanVars, rxNext, shutdownSeen,
                   awsVars, proxyVars, waitVars, cleanVars, tunnel,
                   wgDownCalls, scratch, events, cancelledAt>>

-----------------------------------------------------------------------------
(* Properties *)

\* main consumed an Err from CreateStack (the `?` at the deploy select).
CreateStackReturnedError ==
    createReq = "rejected" /\ proxy = "none" /\ exit = "FAILURE"

\* C1: no orphaned stack -- once the CreateStack request was submitted, the
\* process does not exit unless CreateStack returned an error or a
\* DeleteStack was issued.
C1_NoOrphanedStack ==
    (pc = "done" /\ createReq # "idle")
        => (CreateStackReturnedError \/ deleteCalls >= 1)

\* C2: on shutdown after the tunnel is up, `wg-quick down` has run before
\* DeleteStack is issued.
C2_TeardownBeforeDelete ==
    \A i \in 1..Len(events) :
        (events[i] = "DeleteStack" /\ \E k \in 1..(i - 1) : events[k] = "TunnelUp")
            => \E j \in 1..(i - 1) : events[j] = "WgDown"

\* C3: when shutdown fires while main waits for the stack, DeleteStack is
\* issued exactly once and the process exits SUCCESS.
C3_CancelDuringWait ==
    (pc = "done" /\ firedAt \in WaitPcs)
        => (deleteCalls = 1 /\ exit = "SUCCESS")

\* C4: when shutdown fires during IP detection or inside deploy and cancels
\* that step, the process exits SUCCESS and no stack was created by the run.
C4_NoSideEffectBeforeDeploy ==
    (pc = "done" /\ firedAt \in {"ip_detect"} \cup DeployPcs
                 /\ cancelledAt \in {"ip_detect"} \cup DeployPcs)
        => (exit = "SUCCESS" /\ ~created)

\* C5: when shutdown fires after deploy returned the handle and before the
\* tunnel is up, DeleteStack is issued before the process exits.
C5_CleanupAfterDeploy ==
    (pc = "done" /\ firedAt \in WaitPcs \cup SetupPcs) => deleteCalls >= 1

\* C6: a fatal error after the stack handle exists still issues DeleteStack
\* before the process exits.
C6_CleanupOnFatal ==
    (pc = "done" /\ proxy = "handle" /\ exit = "FAILURE") => deleteCalls >= 1

\* C7: an error returned by cleanup() is not propagated -- on every path
\* that called cleanup() the process exits SUCCESS.
C7_CleanupErrorNotPropagated ==
    /\ cleanupResult = "err" => (pc = "done" /\ exit = "SUCCESS")
    /\ (pc = "done" /\ deleteCalls >= 1) => exit = "SUCCESS"

\* C7 witness: cleanup() returned an error and main has returned.
C7_Witness == pc = "done" /\ cleanupResult = "err"

\* C8: OriginTunnel::setup is started, and `wg-quick up` invoked, only after
\* wait_for_completion returned Ok for a stack observed in CREATE_COMPLETE.
C8_CreateBeforeTunnel ==
    (pc \in SetupPcs \/ wgUpProc # "none" \/ tunnel)
        => (waitResult = "ok" /\ waitLastResp = "CREATE_COMPLETE")

\* C8 witness: `wg-quick up` has been invoked.
C8_Witness == wgUpProc = "running" /\ pc = "setup_up"

\* C9: "stack does not exist" from DescribeStacks is fatal in
\* wait_for_completion and is success in the polling of cleanup().
C9_StackDisappeared ==
    /\ waitLastResp = "ERR_DISAPPEARED"
           => (waitResult = "err" /\ pc = "done" /\ exit = "FAILURE")
    /\ cleanupLastResp = "ERR_DISAPPEARED" => cleanupResult = "ok"

\* C9 witness: the polling of cleanup() met "stack does not exist".
C9_Witness == pc = "done" /\ cleanupLastResp = "ERR_DISAPPEARED"

\* C10: a DescribeStacks poll that fails for another reason than the stack
\* having disappeared does not terminate the wait or the cleanup polling.
C10_TransientRetried ==
    /\ waitLastResp = "ERR_TRANSIENT" => waitResult # "err"
    /\ cleanupLastResp = "ERR_TRANSIENT" => cleanupResult # "err"

CleanupPcs == {"cleanup_delete", "cleanup_describe", "cleanup_sleep"}

\* C11: the shutdown broadcast is published at most once, and once cleanup()
\* has started it runs to its own return -- no later signal cancels it.
C11_ShutdownOnceCleanupNotAborted ==
    [][/\ chanTail' <= 1
       /\ pc \in CleanupPcs =>
             /\ pc' \in CleanupPcs \cup {"done"}
             /\ pc' = "done" => cleanupResult' \in {"ok", "err"}
             /\ deleteCalls' = deleteCalls]_vars

\* C11 witness: a further signal arrived while cleanup() was running.
C11_Witness == pc \in CleanupPcs /\ signals = 2 /\ chanTail = 1

-----------------------------------------------------------------------------
\* Subnet picker (wireguard.rs).  An address is its four octets; a network
\* identifier is the sequence of octets that the code joins with dots, so two
\* identifiers are the same string exactly when they are the same sequence.

\* get_existing_subnets: the first two octets of every interface address.
GetExistingSubnets(H) == {<<a[1], a[2]>> : a \in H}

\* The candidate table of find_available_subnet, in its order.
Candidates ==
    <<
     [prefix |-> <<172, 17>>, proxy_ip |-> <<172, 17, 0, 1>>, origin_ip |-> <<172, 17, 0, 2>>],
     [prefix |-> <<172, 18>>, proxy_ip |-> <<172, 18, 0, 1>>, origin_ip |-> <<172, 18, 0, 2>>],
     [prefix |-> <<172, 19>>, proxy_ip |-> <<172, 19, 0, 1>>, origin_ip |-> <<172, 19, 0, 2>>],
     [prefix |-> <<172, 20>>, proxy_ip |-> <<172, 20, 0, 1>>, origin_ip |-> <<172, 20, 0, 2>>],
     [prefix |-> <<172, 21>>, proxy_ip |-> <<172, 21, 0, 1>>, origin_ip |-> <<172, 21, 0, 2>>],
     [prefix |-> <<172, 22>>, proxy_ip |-> <<172, 22, 0, 1>>, origin_ip |-> <<172, 22, 0, 2>>],
     [prefix |-> <<172, 23>>, proxy_ip |-> <<172, 23, 0, 1>>, origin_ip |-> <<172, 23, 0, 2>>],
     [prefix |-> <<172, 24>>, proxy_ip |-> <<172, 24, 0, 1>>, origin_ip |-> <<172, 24, 0, 2>>],
     [prefix |-> <<172, 25>>, proxy_ip |-> <<172, 25, 0, 1>>, origin_ip |-> <<172, 25, 0, 2>>],
     [prefix |-> <<172, 26>>, proxy_ip |-> <<172, 26, 0, 1>>, origin_ip |-> <<172, 26, 0, 2>>],
     [prefix |-> <<172, 27>>, proxy_ip |-> <<172, 27, 0, 1>>, origin_ip |-> <<172, 27, 0, 2>>],
     [prefix |-> <<172, 28>>, proxy_ip |-> <<172, 28, 0, 1>>, origin_ip |-> <<172, 28, 0, 2>>],
     [prefix |-> <<172, 29>>, proxy_ip |-> <<172, 29, 0, 1>>, origin_ip |-> <<172, 29, 0, 2>>],
     [prefix |-> <<172, 30>>, proxy_ip |-> <<172, 30, 0, 1>>, origin_ip |-> <<172, 30, 0, 2>>],
     [prefix |-> <<172, 31>>, proxy_ip |-> <<172, 31, 0, 1>>, origin_ip |-> <<172, 31, 0, 2>>],
     [prefix |-> <<10, 99>>, proxy_ip |-> <<10, 99, 0, 1>>, origin_ip |-> <<10, 99, 0, 2>>],
     [prefix |-> <<10, 98>>, proxy_ip |-> <<10, 98, 0, 1>>, origin_ip |-> <<10, 98, 0, 2>>],
     [prefix |-> <<10, 97>>, proxy_ip |-> <<10, 97, 0, 1>>, origin_ip |-> <<10, 97, 0, 2>>],
     [prefix |-> <<192, 168, 99>>, proxy_ip |-> <<192, 168, 99, 1>>, origin_ip |-> <<192, 168, 99, 2>>]
    >>

NoSubnetAvailable == [status |-> "err", proxy_ip |-> <<>>, origin_ip |-> <<>>]

RECURSIVE LastFit(_, _)
LastFit(existing, i) ==
    IF i < 1 THEN NoSubnetAvailable
    ELSE IF Candidates[i].prefix \notin existing
         THEN [status |-> "ok", proxy_ip |-> Candidates[i].proxy_ip,
               origin_ip |-> Candidates[i].origin_ip]
         ELSE LastFit(existing, i - 1)

RECURSIVE FirstFit(_, _)
FirstFit(existing, i) ==
    IF i > Len(Candidates) THEN NoSubnetAvailable
    ELSE IF Candidates[i].prefix \notin existing
         THEN [status |-> "ok", proxy_ip |-> Candidates[i].proxy_ip,
               origin_ip |-> Candidates[i].origin_ip]
         ELSE FirstFit(existing, i + 1)

FindAvailableSubnetBackwards(H) == LastFit(GetExistingSubnets(H), Len(Candidates))

FindAvailableSubnet(H) == FirstFit(GetExistingSubnets(H), 1)

\* Hosts the picker is run on: an address inside each of the first n candidate
\* networks, except for at most MaxHoles of them, plus any of a few addresses
\* outside the candidate networks.
MaxHoles == 1

AddrIn(i) ==
    LET p == Candidates[i].prefix
    IN  IF Len(p) = 2 THEN <<p[1], p[2], 0, 5>> ELSE <<p[1], p[2], p[3], 5>>

OtherAddrs == {<<192, 168, 1, 5>>, <<10, 0, 0, 5>>, <<127, 0, 0, 1>>}

RECURSIVE HoleSets(_)
HoleSets(k) ==
    IF k = 0 THEN {{}}
    ELSE HoleSets(k - 1) \cup
         {h \cup {j} : h \in HoleSets(k - 1), j \in 1..Len(Candidates)}

HostSets ==
    {{AddrIn(i) : i \in (1..n) \ holes} \cup X :
        n \in 0..Len(Candidates), holes \in HoleSets(MaxHoles), X \in SUBSET OtherAddrs}

SubnetInit ==
    /\ MainInit
    /\ ~dashboard
    /\ ~foreign
    /\ ConfigDone
    /\ NoLimits
    /\ KeysIdle
    /\ EndpointIdle
    /\ StartIdle
    /\ StatsIdle
    /\ RulesIdle
    /\ TemplateIdle
    /\ host \in HostSets
    /\ picked = NotPicked

\* find_available_subnet().await on this host.
FindSubnet ==
    /\ picked.status = "none"
    /\ picked' = FindAvailableSubnet(host)
    /\ UNCHANGED <<mainVars, host, configVars, limitVars, keyVars, endpointVars, startVars, statsVars, rulesVars, templateVars>>

SubnetNext == FindSubnet

\* C12: whenever the picker returns (proxyIP, originIP), the first two octets of
\* proxyIP differ from the first two octets of every address bound on the host.
C12_SubnetDisjoint ==
    picked.status = "ok" =>
        \A a \in host : <<a[1], a[2]>> # <<picked.proxy_ip[1], picked.proxy_ip[2]>>

\* C13: the picker is first-fit over the ordered candidate list: it returns the
\* earliest candidate whose prefix is absent from the host's prefix set, the
\* proxy address ending in .1 and the origin address in .2; a host whose only
\* address is 172.17.0.5 gets (172.18.0.1, 172.18.0.2).
C13_FirstFit ==
    LET prefixes == {<<a[1], a[2]>> : a \in host}
        absent   == {i \in 1..Len(Candidates) : Candidates[i].prefix \notin prefixes}
    IN  /\ (picked.status # "none" /\ absent # {}) =>
               \E i \in absent :
                   /\ \A j \in absent : i <= j
                   /\ picked.status = "ok"
                   /\ picked.proxy_ip = Candidates[i].proxy_ip
                   /\ picked.origin_ip = Candidates[i].origin_ip
                   /\ picked.proxy_ip[4] = 1
                   /\ picked.origin_ip[4] = 2
                   /\ SubSeq(picked.proxy_ip, 1, 3) = SubSeq(picked.origin_ip, 1, 3)
        /\ (picked.status # "none" /\ host = {<<172, 17, 0, 5>>}) =>
               /\ picked.proxy_ip = <<172, 18, 0, 1>>
               /\ picked.origin_ip = <<172, 18, 0, 2>>

\* C13 witness: the picker skipped occupied candidates and returned a later one.
C13_Witness ==
    /\ picked.status = "ok"
    /\ picked.proxy_ip = <<10, 98, 0, 1>>
    /\ <<10, 99, 0, 5>> \in host

\* C14: the picker fails with NoSubnetAvailable when every candidate's network
\* is already in use by some interface address of the host.
C14_FailsWhenAllCollide ==
    (/\ picked.status # "none"
     /\ \A i \in 1..Len(Candidates) :
            \E a \in host :
                SubSeq(a, 1, Len(Candidates[i].prefix)) = Candidates[i].prefix)
        => picked = NoSubnetAvailable

-----------------------------------------------------------------------------
(* main, aws arm: validate_all, check_net_admin, port mappings *)

\* Number of --ingress arguments given.
MaxIngress == 2

RawEndpoints ==
    [scheme : {"tcp", "udp", "tls", "TCP", "ftp"}, host : {TRUE},
     port : {{}, {80}, {443}}]
    \cup {[scheme |-> "tcp", host |-> FALSE, port |-> {80}],
          [scheme |-> "tcp", host |-> TRUE, port |-> {65536}]}

Configs ==
    [ingress : UNION {[1..n -> RawEndpoints] : n \in 0..MaxIngress},
     origin : RawEndpoints,
     use_cloudfront : BOOLEAN]

ConfigInit ==
    /\ pc = "validate_all"
    /\ LifecycleIdle
    /\ ~dashboard
    /\ ~foreign
    /\ SubnetIdle
    /\ cfg \in Configs
    /\ verdict = "none"
    /\ port_mappings = <<>>
    /\ NoLimits
    /\ KeysIdle
    /\ EndpointIdle
    /\ StartIdle
    /\ StatsIdle
    /\ RulesIdle
    /\ TemplateIdle

\* service_config.validate_all()?
ValidateAllStep ==
    /\ pc = "validate_all"
    /\ verdict' = ValidateAll(cfg)
    /\ IF verdict' = "ok"
       THEN /\ pc' = "net_admin"
            /\ UNCHANGED <<exit, shutdownSeen, events, wgVars>>
       ELSE Return("FAILURE", events)
    /\ UNCHANGED <<dashboard, chanVars, rxNext, awsVars, proxyVars, waitVars,
                   cleanVars, wgUpProc, cancelledAt, subnetVars, cfg,
                   port_mappings, limitVars, keyVars, endpointVars, startVars, statsVars, rulesVars, templateVars>>

\* check_net_admin().await: Ok(false) is fatal, Err is only a warning.
CheckNetAdmin ==
    /\ pc = "net_admin"
    /\ \E cap \in {"Ok(true)", "Ok(false)", "Err"} :
         IF cap = "Ok(false)"
         THEN Return("FAILURE", events)
         ELSE /\ pc' = "port_mappings"
              /\ UNCHANGED <<exit, shutdownSeen, events, wgVars>>
    /\ UNCHANGED <<fixedVars, chanVars, rxNext, awsVars, proxyVars, waitVars,
                   cleanVars, wgUpProc, cancelledAt>>

\* ingresses()?, origin()? and the port_mappings vector.
BuildPortMappings ==
    /\ pc = "port_mappings"
    /\ IF Ingresses(cfg).ok /\ Origin(cfg).ok
       THEN /\ port_mappings' = PortMappings(cfg)
            /\ pc' = "keygen"
            /\ UNCHANGED <<exit, shutdownSeen, events, wgVars>>
       ELSE /\ Return("FAILURE", events)
            /\ UNCHANGED port_mappings
    /\ UNCHANGED <<dashboard, chanVars, rxNext, awsVars, proxyVars, waitVars,
                   cleanVars, wgUpProc, cancelledAt, subnetVars, cfg,
                   verdict, limitVars, keyVars, endpointVars, startVars, statsVars, rulesVars, templateVars>>

\* The run from validation up to the first remote call (the IP-echo request).
ConfigNext ==
    \/ ValidateAllStep
    \/ CheckNetAdmin
    \/ BuildPortMappings
    \/ KeyGen
    \/ PickSubnet
    \/ IpDetect

\* C15 as stated: for every ingress list and origin, validate_protocols
\* succeeds if and only if all ingress protocols are equal and equal the
\* origin protocol.
C15_ProtocolsIff ==
    LET proto(e)   == ToLowercase(e.scheme)
        hasProto(e) == UrlParses(e) /\ e.host /\ proto(e) \in {"tcp", "udp", "tls"}
        allEqual   == \A i \in 1..Len(cfg.ingress) :
                          proto(cfg.ingress[i]) = proto(cfg.origin)
    IN  (/\ verdict \notin {"none", "validate"}
         /\ hasProto(cfg.origin)
         /\ \A i \in 1..Len(cfg.ingress) : hasProto(cfg.ingress[i]))
            => (verdict # "validate_protocols" <=> allEqual)

\* C15 amended: validate_protocols succeeds if and only if ingresses() and
\* origin() accept the arguments (every endpoint parses with a supported
\* protocol and a host, every ingress has a port, the origin has a port
\* exactly when there is one ingress) and all ingress protocols are equal and
\* equal the origin protocol.
C15_ProtocolsIffParsed ==
    LET proto(e)   == ToLowercase(e.scheme)
        hasProto(e) == UrlParses(e) /\ e.host /\ proto(e) \in {"tcp", "udp", "tls"}
        parsed     == /\ hasProto(cfg.origin)
                      /\ \A i \in 1..Len(cfg.ingress) :
                             hasProto(cfg.ingress[i]) /\ cfg.ingress[i].port # {}
                      /\ (Len(cfg.ingress) = 1 <=> cfg.origin.port # {})
        allEqual   == \A i \in 1..Len(cfg.ingress) :
                          proto(cfg.ingress[i]) = proto(cfg.origin)
    IN  verdict \notin {"none", "validate"}
            => (verdict # "validate_protocols" <=> (parsed /\ allEqual))

\* C15 witness: validate_protocols ran on two parsed ingresses and an origin
\* without port, and failed on the protocols alone.
C15_Witness ==
    /\ verdict = "validate_protocols"
    /\ Len(cfg.ingress) = 2
    /\ Ingresses(cfg).ok
    /\ Origin(cfg).ok

\* C16: a configuration passes validation only if (3) when any ingress uses
\* TLS there is exactly one ingress, (4) when the CDN option is set there is
\* exactly one ingress and its port is 443, (5) with more than one ingress the
\* origin has no port and with a single ingress it has one.
C16_ValidationRules ==
    verdict = "ok" =>
        /\ (\E i \in 1..Len(cfg.ingress) : ToLowercase(cfg.ingress[i].scheme) = "tls")
               => Len(cfg.ingress) = 1
        /\ cfg.use_cloudfront
               => (Len(cfg.ingress) = 1 /\ cfg.ingress[1].port = {443})
        /\ Len(cfg.ingress) > 1 => cfg.origin.port = {}
        /\ Len(cfg.ingress) = 1 => cfg.origin.port # {}

\* C16 witness: a single TLS ingress on port 443 behind the CDN passed.
C16_Witness ==
    /\ verdict = "ok"
    /\ cfg.use_cloudfront
    /\ cfg.ingress[1].scheme = "tls"

\* C17: no port-mapping list handed on by main contains two entries with the
\* same port; an input with a duplicate port is rejected at validation.
C17_NoDuplicatePorts ==
    /\ \A i, j \in 1..Len(port_mappings) :
           i # j => port_mappings[i].port # port_mappings[j].port
    /\ (\E i, j \in 1..Len(cfg.ingress) :
            i # j /\ cfg.ingress[i].port # {} /\ cfg.ingress[i].port = cfg.ingress[j].port)
           => verdict # "ok"

\* C18: every entry of the port-mapping list built for a configuration that
\* passed validation has protocol tcp or udp.
C18_MappingProtocols ==
    \A i \in 1..Len(port_mappings) : port_mappings[i].protocol \in {"tcp", "udp"}

\* C19: a configuration with a malformed endpoint, a missing or out-of-range
\* port, a protocol mismatch, TLS or the CDN with several ingresses, the CDN
\* with a port other than 443, or an origin port with several ingresses, and
\* any configuration that validation rejected, ends the run with a failure
\* at validation: main never gets past it, so no remote call is made.
C19_BadInputFailsFast ==
    LET n           == Len(cfg.ingress)
        proto(e)    == ToLowercase(e.scheme)
        malformed(e) == \/ ~e.host
                        \/ proto(e) \notin {"tcp", "udp", "tls"}
                        \/ \E p \in e.port : p > 65535
        badInput    ==
            \/ malformed(cfg.origin)
            \/ \E i \in 1..n : malformed(cfg.ingress[i])
            \/ \E i \in 1..n : cfg.ingress[i].port = {}
            \/ n = 1 /\ cfg.origin.port = {}
            \/ \E i \in 1..n : proto(cfg.ingress[i]) # proto(cfg.origin)
            \/ n > 1 /\ \E i \in 1..n : proto(cfg.ingress[i]) = "tls"
            \/ n > 1 /\ cfg.use_cloudfront
            \/ cfg.use_cloudfront /\ \E i \in 1..n : cfg.ingress[i].port # {443}
            \/ n > 1 /\ cfg.origin.port # {}
    IN  (badInput \/ verdict \notin {"none", "ok"}) =>
            /\ \/ pc = "validate_all" /\ verdict = "none"
               \/ pc = "done" /\ verdict \notin {"none", "ok"} /\ exit = "FAILURE"
            /\ events = <<>>
            /\ createReq = "idle"
            /\ deleteCalls = 0

\* C19 witness: a CDN configuration with ingress port 80 was rejected.
C19_Witness ==
    /\ pc = "done"
    /\ verdict = "validate_cloudfront"
    /\ cfg.ingress[1].port = {80}

\* C31: the port-mapping list built by main has exactly one entry per
\* ingress, in ingress order, with the ingress's protocol and the port that
\* this ingress declares, so every declared ingress port is a mapped port.
C31_MappingPerIngress ==
    port_mappings # <<>> =>
        /\ Len(port_mappings) = Len(cfg.ingress)
        /\ \A i \in 1..Len(cfg.ingress) :
               /\ port_mappings[i].protocol = ToLowercase(cfg.ingress[i].scheme)
               /\ cfg.ingress[i].port = {port_mappings[i].port}

-----------------------------------------------------------------------------
(* OriginTunnel::setup: the PostUp / PreDown lists of wg0.conf, and the host *)
(* commands they run (iptables, tc, ip, modprobe)                            *)

\* A packet-filter rule: its match text, protocol, port (if any) and target.
Rule(m, proto, port, target) ==
    [match |-> m, proto |-> proto, port |-> port, target |-> target]

NoRule == Rule("", "", {}, "")

\* One PostUp / PreDown line: the command, what it acts on, the rule or rate
\* it carries, and whether the line ends in `|| true`.
Cmd(op, obj, rule, rate, or_true) ==
    [op |-> op, obj |-> obj, rule |-> rule, rate |-> rate, or_true |-> or_true]

\* `let rate_kbps = limit * 1000;` in u32: the product modulo 2^32, composed
\* from the 16-bit halves of limit so that no intermediate value needs more
\* than 31 bits.
RateKbps(limit) ==
    LET lo == (limit % 2^16) * 1000
        hi == ((limit \div 2^16) * 1000 + (lo \div 2^16)) % 2^16
    IN  hi * 2^16 + (lo % 2^16)

\* The two lines pushed before the bandwidth section.
CommonPostUp ==
    <<Cmd("iptables -A", "INPUT",
          Rule("-i wg0 -s proxy_ip -m conntrack --ctstate RELATED,ESTABLISHED", "", {}, "ACCEPT"),
          0, FALSE),
      Cmd("iptables -A", "FORWARD", Rule("-o wg0 -d proxy_ip", "", {}, "ACCEPT"), 0, FALSE)>>

CommonPreDown ==
    <<Cmd("iptables -D", "INPUT",
          Rule("-i wg0 -s proxy_ip -m conntrack --ctstate RELATED,ESTABLISHED", "", {}, "ACCEPT"),
          0, TRUE),
      Cmd("iptables -D", "FORWARD", Rule("-o wg0 -d proxy_ip", "", {}, "ACCEPT"), 0, TRUE)>>

\* `if let Some(limit) = upload_limit { .. }`
UploadPostUp(up) ==
    IF up = {} THEN <<>>
    ELSE LET rate_kbps == RateKbps(CHOOSE limit \in up : TRUE)
         IN  <<Cmd("tc qdisc add", "wg0 root", NoRule, 0, FALSE),
               Cmd("tc class add", "wg0 root", NoRule, rate_kbps, FALSE)>>

UploadPreDown(up) ==
    IF up = {} THEN <<>>
    ELSE <<Cmd("tc qdisc del", "wg0 root", NoRule, 0, TRUE)>>

\* `if let Some(limit) = download_limit { .. }`
DownloadPostUp(down) ==
    IF down = {} THEN <<>>
    ELSE LET rate_kbps == RateKbps(CHOOSE limit \in down : TRUE)
         IN  <<Cmd("modprobe ifb", "ifb0", NoRule, 0, FALSE),
               Cmd("ip link set up", "ifb0", NoRule, 0, FALSE),
               Cmd("tc qdisc add", "wg0 ingress", NoRule, 0, FALSE),
               Cmd("tc filter add", "wg0 ingress", NoRule, 0, FALSE),
               Cmd("tc qdisc add", "ifb0 root", NoRule, 0, FALSE),
               Cmd("tc class add", "ifb0 root", NoRule, rate_kbps, FALSE)>>

DownloadPreDown(down) ==
    IF down = {} THEN <<>>
    ELSE <<Cmd("tc qdisc del", "wg0 ingress", NoRule, 0, TRUE),
           Cmd("tc qdisc del", "ifb0 root", NoRule, 0, TRUE),
           Cmd("ip link set down", "ifb0", NoRule, 0, TRUE)>>

ChainPostUp == <<Cmd("iptables -N", "OUTPOST_ACCOUNTING", NoRule, 0, TRUE)>>

ChainPreDown ==
    <<Cmd("iptables -F", "OUTPOST_ACCOUNTING", NoRule, 0, TRUE),
      Cmd("iptables -X", "OUTPOST_ACCOUNTING", NoRule, 0, TRUE)>>

\* The lines pushed by one iteration of `for (port, protocol) in &port_mappings`.
PortPostUp(m) ==
    LET proto_lower == ToLowercase(m.protocol)
    IN  <<Cmd("iptables -A", "INPUT", Rule("-i wg0 -s proxy_ip --dport", proto_lower, {m.port}, "ACCEPT"), 0, FALSE),
          Cmd("iptables -A", "FORWARD", Rule("-i wg0 -s proxy_ip", proto_lower, {}, "ACCEPT"), 0, FALSE),
          Cmd("iptables -A", "PREROUTING",
              Rule("-i wg0 -s proxy_ip --dport --to-destination origin_host", proto_lower, {m.port}, "DNAT"),
              0, FALSE),
          Cmd("iptables -A", "POSTROUTING", Rule("-d origin_host --dport", proto_lower, {m.port}, "MASQUERADE"), 0, FALSE),
          Cmd("iptables -A", "OUTPOST_ACCOUNTING", Rule("-d origin_host --dport", proto_lower, {m.port}, "RETURN"), 0, FALSE),
          Cmd("iptables -A", "OUTPOST_ACCOUNTING", Rule("-s origin_host --sport", proto_lower, {m.port}, "RETURN"), 0, FALSE)>>

PortPreDown(m) ==
    LET proto_lower == ToLowercase(m.protocol)
    IN  <<Cmd("iptables -D", "INPUT", Rule("-i wg0 -s proxy_ip --dport", proto_lower, {m.port}, "ACCEPT"), 0, TRUE),
          Cmd("iptables -D", "FORWARD", Rule("-i wg0 -s proxy_ip", proto_lower, {}, "ACCEPT"), 0, TRUE),
          Cmd("iptables -D", "PREROUTING",
              Rule("-i wg0 -s proxy_ip --dport --to-destination origin_host", proto_lower, {m.port}, "DNAT"),
              0, TRUE),
          Cmd("iptables -D", "POSTROUTING", Rule("-d origin_host --dport", proto_lower, {m.port}, "MASQUERADE"), 0, TRUE)>>

RECURSIVE PortsPostUp(_, _)
PortsPostUp(pm, i) ==
    IF i > Len(pm) THEN <<>> ELSE PortPostUp(pm[i]) \o PortsPostUp(pm, i + 1)

RECURSIVE PortsPreDown(_, _)
PortsPreDown(pm, i) ==
    IF i > Len(pm) THEN <<>> ELSE PortPreDown(pm[i]) \o PortsPreDown(pm, i + 1)

JumpPostUp ==
    <<Cmd("iptables -A", "FORWARD", Rule("", "", {}, "OUTPOST_ACCOUNTING"), 0, FALSE)>>

JumpPreDown ==
    <<Cmd("iptables -D", "FORWARD", Rule("", "", {}, "OUTPOST_ACCOUNTING"), 0, TRUE)>>

PostUpRules(pm, up, down) ==
    CommonPostUp \o UploadPostUp(up) \o DownloadPostUp(down) \o ChainPostUp
        \o PortsPostUp(pm, 1) \o JumpPostUp

PreDownRules(pm, up, down) ==
    CommonPreDown \o UploadPreDown(up) \o DownloadPreDown(down) \o ChainPreDown
        \o PortsPreDown(pm, 1) \o JumpPreDown

\* The host's answer to one command: whether it succeeded, and the state after.
Failed(k) == [ok |-> FALSE, k |-> k]

Done(k) == [ok |-> TRUE, k |-> k]

RECURSIVE RemoveFirst(_, _)
RemoveFirst(rules, r) ==
    IF rules = <<>> THEN <<>>
    ELSE IF Head(rules) = r THEN Tail(rules)
         ELSE <<Head(rules)>> \o RemoveFirst(Tail(rules), r)

InChain(k, chain, r) == \E i \in 1..Len(k.chains[chain]) : k.chains[chain][i] = r

\* Rules anywhere that jump to the user chain.
Referenced(k, chain) ==
    \E c \in DOMAIN k.chains : \E i \in 1..Len(k.chains[c]) : k.chains[c][i].target = chain

Exec(k, c) ==
    CASE c.op = "iptables -A" ->
            IF (c.obj = "OUTPOST_ACCOUNTING" \/ c.rule.target = "OUTPOST_ACCOUNTING")
               /\ ~k.accounting_chain
            THEN Failed(k)
            ELSE Done([k EXCEPT !.chains[c.obj] = Append(@, c.rule)])
      [] c.op = "iptables -D" ->
            IF InChain(k, c.obj, c.rule)
            THEN Done([k EXCEPT !.chains[c.obj] = RemoveFirst(@, c.rule)])
            ELSE Failed(k)
      [] c.op = "iptables -N" ->
            IF k.accounting_chain THEN Failed(k)
            ELSE Done([k EXCEPT !.accounting_chain = TRUE, !.chains[c.obj] = <<>>])
      [] c.op = "iptables -F" ->
            IF k.accounting_chain
            THEN Done([k EXCEPT !.chains[c.obj] = <<>>])
            ELSE Failed(k)
      [] c.op = "iptables -X" ->
            IF k.accounting_chain /\ k.chains[c.obj] = <<>> /\ ~Referenced(k, c.obj)
            THEN Done([k EXCEPT !.accounting_chain = FALSE])
            ELSE Failed(k)
      [] c.op = "tc qdisc add" ->
            IF c.obj \in k.qdiscs \/ (c.obj = "ifb0 root" /\ ~k.ifb_loaded)
            THEN Failed(k)
            ELSE Done([k EXCEPT !.qdiscs = @ \cup {c.obj}])
      [] c.op = "tc class add" ->
            IF c.obj \in k.qdiscs
            THEN Done([k EXCEPT !.classes = @ \cup {[qdisc |-> c.obj, rate |-> c.rate]}])
            ELSE Failed(k)
      [] c.op = "tc filter add" ->
            IF c.obj \in k.qdiscs
            THEN Done([k EXCEPT !.filters = @ \cup {c.obj}])
            ELSE Failed(k)
      [] c.op = "tc qdisc del" ->
            IF c.obj \in k.qdiscs
            THEN Done([k EXCEPT !.qdiscs = @ \ {c.obj},
                                !.classes = {cl \in @ : cl.qdisc # c.obj},
                                !.filters = @ \ {c.obj}])
            ELSE Failed(k)
      [] c.op = "modprobe ifb" -> Done([k EXCEPT !.ifb_loaded = TRUE])
      [] c.op = "ip link set up" ->
            IF k.ifb_loaded THEN Done([k EXCEPT !.ifb0_up = TRUE]) ELSE Failed(k)
      [] c.op = "ip link set down" ->
            IF k.ifb_loaded THEN Done([k EXCEPT !.ifb0_up = FALSE]) ELSE Failed(k)

\* wg-quick runs the lines in order and stops at the first line that fails
\* (a line ending in `|| true` never fails).
RECURSIVE Run(_, _, _)
Run(k, cmds, i) ==
    IF i > Len(cmds) THEN Done(k)
    ELSE LET r == Exec(k, cmds[i])
         IN  IF r.ok \/ cmds[i].or_true THEN Run(r.k, cmds, i + 1) ELSE Failed(r.k)

\* Length of the port-mapping list given to setup, and how often the PreDown
\* list is run.
MaxMappings == 2
MaxDownRuns == 2

MappingLists ==
    UNION {[1..n -> [port : {80, 443}, protocol : {"tcp", "udp", "TCP", "tls"}]] :
              n \in 0..MaxMappings}

Limits == {{}, {1}, {10000}}

RulesInit ==
    /\ MainInit
    /\ ~dashboard
    /\ ~foreign
    /\ SubnetIdle
    /\ cfg = DefaultCfg
    /\ verdict = "ok"
    /\ port_mappings \in MappingLists
    /\ upload_limit \in Limits
    /\ download_limit \in Limits
    /\ RulesIdle
    /\ TemplateIdle
    /\ KeysIdle
    /\ EndpointIdle
    /\ StartIdle
    /\ StatsIdle

\* The key lines of wg0.conf as setup formats them: [Interface] PrivateKey,
\* [Peer] PublicKey and PresharedKey.
WgConf(origin_keys, proxy_public_key) ==
    [PrivateKey   |-> origin_keys.private_key,
     PublicKey    |-> proxy_public_key,
     PresharedKey |-> origin_keys.preshared_key]

\* OriginTunnel::setup up to fs::write of wg0.conf; main passes
\* wg_keys.origin and wg_keys.proxy.public_key.
WriteConfig ==
    /\ wgStage = "setup"
    /\ IF SetupBails(port_mappings)
       THEN /\ wgStage' = "bail"
            /\ UNCHANGED <<post_up_rules, pre_down_rules, wg_conf>>
       ELSE /\ wgStage' = "config"
            /\ post_up_rules' = PostUpRules(port_mappings, upload_limit, download_limit)
            /\ pre_down_rules' = PreDownRules(port_mappings, upload_limit, download_limit)
            /\ wg_conf' = {WgConf(wg_keys.origin, wg_keys.proxy.public_key)}
    /\ UNCHANGED <<mainVars, subnetVars, configVars, limitVars, wg_keys, userdata,
                   endpointVars, startVars, statsVars, templateVars,
                   kernel, downRuns>>

\* wg-quick up: the PostUp lines.
RunPostUp ==
    /\ wgStage = "config"
    /\ LET r == Run(kernel, post_up_rules, 1)
       IN  /\ kernel' = r.k
           /\ wgStage' = IF r.ok THEN "up" ELSE "failed"
    /\ UNCHANGED <<mainVars, subnetVars, configVars, limitVars, keyVars, endpointVars, startVars, statsVars, templateVars,
                   post_up_rules,
                   pre_down_rules, downRuns>>

\* wg-quick down: the PreDown lines; run again on the state the first run left.
RunPreDown ==
    /\ wgStage \in {"up", "down"}
    /\ downRuns < MaxDownRuns
    /\ kernel' = Run(kernel, pre_down_rules, 1).k
    /\ wgStage' = "down"
    /\ downRuns' = downRuns + 1
    /\ UNCHANGED <<mainVars, subnetVars, configVars, limitVars, keyVars, endpointVars, startVars, statsVars, templateVars,
                   post_up_rules,
                   pre_down_rules>>

RulesNext ==
    \/ WriteConfig
    \/ RunPostUp
    \/ RunPreDown

\* C20: from the state the PostUp list produced, running the PreDown list a
\* second time leaves the kernel state (rules, the OUTPOST_ACCOUNTING chain,
\* qdiscs) as the first run left it.
C20_TeardownIdempotent ==
    [][(downRuns = 1 /\ downRuns' = 2) => kernel' = kernel]_vars

\* A teardown line d undoes a setup line u: the deletion of the same rule,
\* the flush of the chain the rule was appended to, the deletion of the
\* chain, the deletion of the qdisc that the qdisc, class or filter belongs
\* to, or the ifb0 link taken down.
Undoes(d, u) ==
    \/ u.op = "iptables -A" /\ d.op = "iptables -D" /\ d.obj = u.obj
           /\ d.rule = u.rule
    \/ u.op = "iptables -A" /\ d.op = "iptables -F" /\ d.obj = u.obj
    \/ u.op = "iptables -N" /\ d.op = "iptables -X" /\ d.obj = u.obj
    \/ u.op \in {"tc qdisc add", "tc class add", "tc filter add"}
           /\ d.op = "tc qdisc del" /\ d.obj = u.obj
    \/ u.op = "ip link set up" /\ d.op = "ip link set down" /\ d.obj = u.obj

\* The positions of the PreDown lines that undo PostUp line i.
Counterparts(i) ==
    {j \in 1..Len(pre_down_rules) : Undoes(pre_down_rules[j], post_up_rules[i])}

Least(S) == CHOOSE x \in S : \A y \in S : x <= y

Greatest(S) == CHOOSE x \in S : \A y \in S : x >= y

\* The rules, chains and qdiscs of the host.
FilterState(k) ==
    [chains |-> k.chains, accounting_chain |-> k.accounting_chain,
     qdiscs |-> k.qdiscs, classes |-> k.classes, filters |-> k.filters]

\* C30: every setup line has a teardown line that undoes it, the teardown
\* lines come in the reverse order of the setup lines they undo, every
\* teardown line ends in `|| true`, and the PostUp list followed by the
\* PreDown list leaves the rules, chains and qdiscs as they were before.
C30_TeardownMirrorsSetup ==
    /\ wgStage \notin {"setup", "bail"} =>
          /\ \A j \in 1..Len(pre_down_rules) : pre_down_rules[j].or_true
          /\ \A i \in 1..Len(post_up_rules) : Counterparts(i) # {}
          /\ \A i1, i2 \in 1..Len(post_up_rules) :
                (i1 < i2 /\ Counterparts(i1) # {} /\ Counterparts(i2) # {})
                    => Greatest(Counterparts(i1)) >= Least(Counterparts(i2))
    /\ (wgStage = "down" /\ downRuns = 1) =>
          FilterState(kernel) = FilterState(CleanKernel)

-----------------------------------------------------------------------------
(* CloudFormationTemplate (aws/cloudformation.rs) *)

\* One entry of SecurityGroupIngress.
IngressRule(protocol, port, cidr) ==
    [IpProtocol |-> protocol, FromPort |-> port, ToPort |-> port, CidrIp |-> cidr]

RECURSIVE MappingRules(_, _)
MappingRules(pm, i) ==
    IF i > Len(pm) THEN <<>>
    ELSE <<IngressRule(ToLowercase(pm[i].protocol), pm[i].port, "0.0.0.0/0")>>
         \o MappingRules(pm, i + 1)

GenerateSecurityGroupRulesAlwaysSsh(pm, dbg) ==
    <<IngressRule("udp", 51820, "origin_ip/32")>>
        \o MappingRules(pm, 1)
        \o <<IngressRule("tcp", 22, "origin_ip/32")>>

\* CloudFormationTemplate::generate_security_group_rules
GenerateSecurityGroupRules(pm, dbg) ==
    <<IngressRule("udp", 51820, "origin_ip/32")>>
        \o MappingRules(pm, 1)
        \o (IF dbg THEN <<IngressRule("tcp", 22, "origin_ip/32")>> ELSE <<>>)

TemplateConditionsBothEqual(use_cloudfront) ==
    [UseCloudFront    |-> [fn |-> "Fn::Equals", args |-> <<use_cloudfront, TRUE>>],
     NotUseCloudFront |-> [fn |-> "Fn::Equals", args |-> <<use_cloudfront, TRUE>>]]

\* The "Conditions" section of the template.
TemplateConditions(use_cloudfront) ==
    [UseCloudFront    |-> [fn |-> "Fn::Equals", args |-> <<use_cloudfront, TRUE>>],
     NotUseCloudFront |-> [fn |-> "Fn::Not",
                           args |-> <<[fn |-> "Fn::Equals",
                                       args |-> <<use_cloudfront, TRUE>>]>>]]

\* A resource of the template: its type, its "Condition" ("" when it has
\* none), and for a record set what the A record points to.
Resource(type, condition, target) ==
    [Type |-> type, Condition |-> condition, Target |-> target]

\* The "Resources" section of the template.
TemplateResources ==
    [VPC                         |-> Resource("AWS::EC2::VPC", "", ""),
     InternetGateway             |-> Resource("AWS::EC2::InternetGateway", "", ""),
     AttachGateway               |-> Resource("AWS::EC2::VPCGatewayAttachment", "", ""),
     PublicSubnet                |-> Resource("AWS::EC2::Subnet", "", ""),
     PublicRouteTable            |-> Resource("AWS::EC2::RouteTable", "", ""),
     PublicRoute                 |-> Resource("AWS::EC2::Route", "", ""),
     SubnetRouteTableAssociation |-> Resource("AWS::EC2::SubnetRouteTableAssociation", "", ""),
     SecurityGroup               |-> Resource("AWS::EC2::SecurityGroup", "", ""),
     EC2Role                     |-> Resource("AWS::IAM::Role", "", ""),
     InstanceProfile             |-> Resource("AWS::IAM::InstanceProfile", "", ""),
     ProxyInstance               |-> Resource("AWS::EC2::Instance", "", ""),
     WaitHandle                  |-> Resource("AWS::CloudFormation::WaitConditionHandle", "", ""),
     WaitCondition               |-> Resource("AWS::CloudFormation::WaitCondition", "", ""),
     DirectDNSRecord             |-> Resource("AWS::Route53::RecordSet", "NotUseCloudFront",
                                              "ResourceRecords ProxyInstance.PublicIp"),
     CloudFrontDistribution      |-> Resource("AWS::CloudFront::Distribution", "UseCloudFront", ""),
     CloudFrontDNSRecord         |-> Resource("AWS::Route53::RecordSet", "UseCloudFront",
                                              "AliasTarget CloudFrontDistribution.DomainName")]

\* CloudFormationTemplate::generate
Generate(pm, dbg, use_cloudfront) ==
    [Conditions           |-> TemplateConditions(use_cloudfront),
     Resources            |-> TemplateResources,
     SecurityGroupIngress |-> GenerateSecurityGroupRules(pm, dbg)]

\* CloudFormation's evaluation of a condition of the template.
RECURSIVE EvalCondition(_)
EvalCondition(c) ==
    IF c.fn = "Fn::Equals" THEN c.args[1] = c.args[2] ELSE ~EvalCondition(c.args[1])

\* The resources CloudFormation creates: those without a condition and those
\* whose condition evaluates to true.
ActiveResources(t) ==
    {r \in DOMAIN t.Resources :
        \/ t.Resources[r].Condition = ""
        \/ EvalCondition(t.Conditions[t.Resources[r].Condition])}

\* As DeployKeys, but main passes the preshared key generated for the proxy
\* side, which the origin's configuration does not use.
DeployKeysProxyPsk(keys) ==
    [proxy_wg_private_key |-> keys.proxy.private_key,
     proxy_wg_public_key  |-> keys.proxy.public_key,
     origin_wg_public_key |-> keys.origin.public_key,
     preshared_key        |-> keys.proxy.preshared_key]

\* The keys main hands to AwsProxy::deploy, by parameter: the proxy's private
\* and public key, the origin's public key and the origin's preshared key.
DeployKeys(keys) ==
    [proxy_wg_private_key |-> keys.proxy.private_key,
     proxy_wg_public_key  |-> keys.proxy.public_key,
     origin_wg_public_key |-> keys.origin.public_key,
     preshared_key        |-> keys.origin.preshared_key]

\* A text is a sequence of pieces; a placeholder is one piece.
\* templates/proxy.nix: the pieces that generate_userdata and its tests rely
\* on, in the order of the NixOS module (arguments, let-bindings, the
\* WireGuard interface and its peer, the firewall, the watchdog, sshd).
NixTemplate ==
    <<"{ config, pkgs, lib, ... }:", "let", "debug = false", ";",
      "portMappings =", "{PORT_MAPPINGS}", ";", "in",
      "ips =", "{PROXY_IP}", "privateKey =", "{PROXY_WG_PRIVATE_KEY}",
      "publicKey =", "{ORIGIN_WG_PUBLIC_KEY}",
      "presharedKey =", "{PRESHARED_KEY}",
      "allowedIPs =", "{ORIGIN_IP}", "subnet =", "{SUBNET}",
      "stack-name", "{STACK_NAME}", "region", "{REGION}",
      "services.openssh", "=", "lib.mkIf debug">>

\* str::replace(from, to): every piece equal to `from` becomes the text `to`;
\* what was put in is not scanned again.
RECURSIVE Replace(_, _, _)
Replace(text, from, to) ==
    IF text = <<>> THEN <<>>
    ELSE (IF Head(text) = from THEN to ELSE <<Head(text)>>)
             \o Replace(Tail(text), from, to)

DigitChars == <<"0", "1", "2", "3", "4", "5", "6", "7", "8", "9">>

\* format!("{}", n) of a port number
RECURSIVE Decimal(_)
Decimal(n) ==
    IF n < 10 THEN <<DigitChars[n + 1]>>
    ELSE Decimal(n \div 10) \o <<DigitChars[(n % 10) + 1]>>

\* format!("{{ port = {}; protocol = \"{}\"; }}", port, protocol)
NixMapping(port, protocol) ==
    <<"{ port = ">> \o Decimal(port) \o <<"; protocol = \"", protocol, "\"; }">>

\* mappings.join("\n    ") from mapping i on.
RECURSIVE JoinMappings(_, _, _)
JoinMappings(pm, i, lower) ==
    IF i > Len(pm) THEN <<>>
    ELSE (IF i > 1 THEN <<"\n    ">> ELSE <<>>)
             \o NixMapping(pm[i].port,
                           IF lower THEN ToLowercase(pm[i].protocol)
                                    ELSE pm[i].protocol)
             \o JoinMappings(pm, i + 1, lower)

\* As PortMappingsNix, with the protocol written as it was given.
PortMappingsNixAsGiven(pm) ==
    IF pm = <<>> THEN <<"[ ]">>
    ELSE <<"[\n    ">> \o JoinMappings(pm, 1, FALSE) \o <<"\n  ]">>

\* generate_userdata: the Nix list expression for the port mappings.
PortMappingsNix(pm) ==
    IF pm = <<>> THEN <<"[ ]">>
    ELSE <<"[\n    ">> \o JoinMappings(pm, 1, TRUE) \o <<"\n  ]">>

\* CloudFormationTemplate::generate_userdata; t has the fields of the struct
\* that the boot script depends on.  The tunnel addresses, the subnet, the
\* stack name and the region are written as one piece each.
GenerateUserdata(t) ==
    LET t1  == Replace(NixTemplate, "debug = false",
                       <<IF t.debug THEN "debug = true" ELSE "debug = false">>)
        t2  == Replace(t1, "{PROXY_WG_PRIVATE_KEY}", <<t.proxy_wg_private_key>>)
        t3  == Replace(t2, "{PORT_MAPPINGS}", PortMappingsNix(t.port_mappings))
        t4  == Replace(t3, "{ORIGIN_WG_PUBLIC_KEY}", <<t.origin_wg_public_key>>)
        t5  == Replace(t4, "{PRESHARED_KEY}", <<t.preshared_key>>)
        t6  == Replace(t5, "{ORIGIN_IP}", <<"wg_origin_ip">>)
        t7  == Replace(t6, "{PROXY_IP}", <<"wg_proxy_ip">>)
        t8  == Replace(t7, "{SUBNET}", <<"subnet">>)
        t9  == Replace(t8, "{STACK_NAME}", <<"stack_name">>)
    IN  Replace(t9, "{REGION}", <<"region">>)

\* The CloudFormationTemplate that deploy builds from its arguments.
TemplateOf(keys, pm, dbg) ==
    [port_mappings        |-> pm,
     debug                |-> dbg,
     proxy_wg_private_key |-> DeployKeys(keys).proxy_wg_private_key,
     proxy_wg_public_key  |-> DeployKeys(keys).proxy_wg_public_key,
     origin_wg_public_key |-> DeployKeys(keys).origin_wg_public_key,
     preshared_key        |-> DeployKeys(keys).preshared_key]

TemplateInit ==
    /\ MainInit
    /\ ~dashboard
    /\ ~foreign
    /\ SubnetIdle
    /\ \E b \in BOOLEAN : cfg = [DefaultCfg EXCEPT !.use_cloudfront = b]
    /\ verdict = "ok"
    /\ port_mappings \in MappingLists
    /\ NoLimits
    /\ KeysIdle
    /\ EndpointIdle
    /\ StartIdle
    /\ StatsIdle
    /\ RulesIdle
    /\ debug \in BOOLEAN
    /\ instance_type = T4gNano
    /\ template = {}
    /\ arch = ""

\* AwsProxy::deploy: `let template_body = template.generate()?;`, which
\* renders the boot script into the instance's UserData.
RenderTemplate ==
    /\ template = {}
    /\ template' = {Generate(port_mappings, debug, cfg.use_cloudfront)}
    /\ userdata' = GenerateUserdata(TemplateOf(wg_keys, port_mappings, debug))
    /\ UNCHANGED <<mainVars, subnetVars, configVars, limitVars, wg_keys,
                   wg_conf, endpointVars, startVars, statsVars, rulesVars,
                   debug, instance_type, arch>>

TemplateNext == RenderTemplate

\* C21: the security-group ingress rules are exactly: UDP/51820 from
\* originIP/32; for each (port, protocol) of the port-mapping list one rule
\* for that protocol and port from 0.0.0.0/0; and TCP/22 from originIP/32 if
\* and only if debug is set.  Nothing else: 1 + mappings + (1 if debug) rules.
C21_SecurityGroupRules ==
    \A t \in template :
        LET rules == t.SecurityGroupIngress
            n     == Len(port_mappings)
            ssh   == [IpProtocol |-> "tcp", FromPort |-> 22, ToPort |-> 22,
                      CidrIp |-> "origin_ip/32"]
        IN  /\ Len(rules) = 1 + n + (IF debug THEN 1 ELSE 0)
            /\ rules[1] = [IpProtocol |-> "udp", FromPort |-> 51820, ToPort |-> 51820,
                           CidrIp |-> "origin_ip/32"]
            /\ \A i \in 1..n :
                   /\ rules[1 + i].IpProtocol = ToLowercase(port_mappings[i].protocol)
                   /\ rules[1 + i].FromPort = port_mappings[i].port
                   /\ rules[1 + i].ToPort = port_mappings[i].port
                   /\ rules[1 + i].CidrIp = "0.0.0.0/0"
            /\ debug => rules[n + 2] = ssh

\* C21 witness: a template rendered with debug set and two mappings.
C21_Witness ==
    /\ template # {}
    /\ debug
    /\ Len(port_mappings) = 2

\* C27: the rendered stack has exactly one active A record for the ingress
\* host: the alias to the CDN domain, together with a CDN distribution, iff
\* the CDN option is set, the direct record to the instance public IP iff not.
C27_OneDnsRecord ==
    \A t \in template :
        LET active  == ActiveResources(t)
            records == {r \in active : t.Resources[r].Type = "AWS::Route53::RecordSet"}
        IN  /\ Cardinality(records) = 1
            /\ cfg.use_cloudfront =>
                   /\ records = {"CloudFrontDNSRecord"}
                   /\ t.Resources["CloudFrontDNSRecord"].Target
                          = "AliasTarget CloudFrontDistribution.DomainName"
                   /\ "CloudFrontDistribution" \in active
            /\ ~cfg.use_cloudfront =>
                   /\ records = {"DirectDNSRecord"}
                   /\ t.Resources["DirectDNSRecord"].Target
                          = "ResourceRecords ProxyInstance.PublicIp"
                   /\ "CloudFrontDistribution" \notin active

\* C27 witness: a template rendered with the CDN option set.
C27_Witness ==
    /\ template # {}
    /\ cfg.use_cloudfront

-----------------------------------------------------------------------------
(* CloudFormationTemplate::get_architecture *)

\* str::starts_with on sequences of characters.
StartsWith(s, prefix) ==
    Len(s) >= Len(prefix) /\ SubSeq(s, 1, Len(prefix)) = prefix

GetArchitectureNoG5g(it) ==
    IF StartsWith(it, <<"t", "4", "g", ".">>)
       \/ StartsWith(it, <<"a", "1", ".">>)
       \/ StartsWith(it, <<"m", "6", "g", ".">>)
       \/ StartsWith(it, <<"m", "7", "g", ".">>)
       \/ StartsWith(it, <<"c", "6", "g", ".">>)
       \/ StartsWith(it, <<"c", "7", "g", ".">>)
       \/ StartsWith(it, <<"r", "6", "g", ".">>)
       \/ StartsWith(it, <<"r", "7", "g", ".">>)
    THEN "arm64"
    ELSE "x86_64"

\* CloudFormationTemplate::get_architecture
GetArchitecture(it) ==
    IF StartsWith(it, <<"t", "4", "g", ".">>)
       \/ StartsWith(it, <<"a", "1", ".">>)
       \/ StartsWith(it, <<"m", "6", "g", ".">>)
       \/ StartsWith(it, <<"m", "7", "g", ".">>)
       \/ StartsWith(it, <<"c", "6", "g", ".">>)
       \/ StartsWith(it, <<"c", "7", "g", ".">>)
       \/ StartsWith(it, <<"r", "6", "g", ".">>)
       \/ StartsWith(it, <<"r", "7", "g", ".">>)
       \/ StartsWith(it, <<"g", "5", "g", ".">>)
    THEN "arm64"
    ELSE "x86_64"

\* Instance-type strings: an optional leading character, a family, an
\* optional dot and an optional size.
InstanceTypes ==
    {lead \o family \o dot \o size :
        lead \in {<<>>, <<"x">>},
        family \in {<<"t", "4", "g">>,
                    <<"a", "1">>,
                    <<"m", "6", "g">>,
                    <<"m", "7", "g">>,
                    <<"c", "6", "g">>,
                    <<"c", "7", "g">>,
                    <<"r", "6", "g">>,
                    <<"r", "7", "g">>,
                    <<"g", "5", "g">>,
                    <<"t", "3">>,
                    <<"m", "5">>,
                    <<"m", "6", "g", "d">>,
                    <<"t", "4">>,
                    <<"T", "4", "G">>,
                    <<"g", "5">>,
                    <<>>},
        dot \in {<<>>, <<".">>},
        size \in {<<>>, <<"n", "a", "n", "o">>, <<"m", "i", "c", "r", "o">>}}

ArchInit ==
    /\ MainInit
    /\ ~dashboard
    /\ ~foreign
    /\ SubnetIdle
    /\ ConfigDone
    /\ NoLimits
    /\ KeysIdle
    /\ EndpointIdle
    /\ StartIdle
    /\ StatsIdle
    /\ RulesIdle
    /\ debug = FALSE
    /\ instance_type \in InstanceTypes
    /\ template = {}
    /\ arch = ""

\* AwsProxy::deploy: get_latest_nixos_ami(&ec2_client, template.get_architecture())
GetArch ==
    /\ arch = ""
    /\ arch' = GetArchitecture(instance_type)
    /\ UNCHANGED <<mainVars, subnetVars, configVars, limitVars, keyVars, endpointVars, startVars, statsVars, rulesVars, debug,
                   instance_type, template>>

ArchNext == GetArch

\* C22: get_architecture returns arm64 if the instance type starts with one
\* of t4g., a1., m6g., m7g., c6g., c7g., r6g., r7g., g5g., and x86_64
\* otherwise; t4g.nano is arm64 and t3.micro is x86_64.
C22_ArchMapping ==
    LET armList == {<<"t", "4", "g", ".">>,
                    <<"a", "1", ".">>,
                    <<"m", "6", "g", ".">>,
                    <<"m", "7", "g", ".">>,
                    <<"c", "6", "g", ".">>,
                    <<"c", "7", "g", ".">>,
                    <<"r", "6", "g", ".">>,
                    <<"r", "7", "g", ".">>,
                    <<"g", "5", "g", ".">>}
        isArm   == \E p \in armList :
                       /\ Len(p) <= Len(instance_type)
                       /\ \A i \in 1..Len(p) : instance_type[i] = p[i]
    IN  arch # "" =>
            /\ isArm => arch = "arm64"
            /\ ~isArm => arch = "x86_64"
            /\ instance_type = <<"t", "4", "g", ".", "n", "a", "n", "o">> => arch = "arm64"
            /\ instance_type = <<"t", "3", ".", "m", "i", "c", "r", "o">> => arch = "x86_64"

\* C22 witness: the last prefix of the list matched.
C22_Witness ==
    /\ arch = "arm64"
    /\ instance_type = <<"g", "5", "g", ".", "n", "a", "n", "o">>

-----------------------------------------------------------------------------
(* Stats sampler: OriginTunnel::get_traffic_stats and the /api/stats       *)
(* handler.  A line of the listing is kept as the fields the sampler reads *)
(* after split_whitespace: the number of parts, parts[1], parts[7] and     *)
(* parts[8], each a sequence of characters.  With `-j RETURN` rules the    *)
(* columns are "pkts bytes target prot opt in out source destination", so  *)
(* parts[7] is the source and parts[8] the destination of the row.         *)

\* "0.0.0.0/0"
AnyAddr == <<"0", ".", "0", ".", "0", ".", "0", "/", "0">>

\* The origin's tunnel address as `-n` prints it, "10.0.0.2".
OriginAddr == <<"1", "0", ".", "0", ".", "0", ".", "2">>

Line(len, bytes, source, destination) ==
    [len |-> len, bytes |-> bytes, source |-> source,
     destination |-> destination]

\* "Chain OUTPOST_ACCOUNTING (1 references)"
ChainHeader == Line(4, <<"O">>, <<>>, <<>>)

\* "pkts bytes target prot opt in out source destination"
ColumnHeader ==
    Line(9, <<"b", "y", "t", "e", "s">>, <<"s", "o", "u", "r", "c", "e">>,
         <<"d", "e", "s", "t", "i", "n", "a", "t", "i", "o", "n">>)

\* "<pkts> <bytes> RETURN tcp -- * * <source> <destination> tcp dpt:80"
Row(bytes, source, destination) == Line(11, bytes, source, destination)

IsDigit(c) == \E i \in 1..10 : DigitChars[i] = c

DigitValue(c) == (CHOOSE i \in 1..10 : DigitChars[i] = c) - 1

RECURSIVE DecimalValue(_)
DecimalValue(s) ==
    IF s = <<>> THEN 0
    ELSE DecimalValue(SubSeq(s, 1, Len(s) - 1)) * 10 + DigitValue(s[Len(s)])

\* parts[1].parse::<u64>(): Ok(n) is {n}, Err is {}.
ParseU64(s) ==
    IF s # <<>> /\ \A i \in 1..Len(s) : IsDigit(s[i])
    THEN {DecimalValue(s)}
    ELSE {}

\* The loop body of get_traffic_stats applied to lines[i..]; acc is
\* <<bytes_to_origin, bytes_from_origin>>.
RECURSIVE SumLines(_, _, _)
SumLines(lines, i, acc) ==
    IF i > Len(lines) THEN acc
    ELSE LET parts == lines[i]
             bytes == ParseU64(parts.bytes)
         IN  IF parts.len < 9 \/ bytes = {}
             THEN SumLines(lines, i + 1, acc)
             ELSE LET n == CHOOSE b \in bytes : TRUE
                  IN  IF /\ StartsWith(parts.destination, AnyAddr)
                         /\ parts.source # AnyAddr
                      THEN SumLines(lines, i + 1, <<acc[1] + n, acc[2]>>)
                      ELSE IF /\ StartsWith(parts.source, AnyAddr)
                              /\ parts.destination # AnyAddr
                      THEN SumLines(lines, i + 1, <<acc[1], acc[2] + n>>)
                      ELSE SumLines(lines, i + 1, acc)

\* get_traffic_stats: Err when iptables failed, else Ok((bytes_to_origin,
\* bytes_from_origin)) over the lines after the two header lines.
GetTrafficStats(output) ==
    IF ~output.success THEN {}
    ELSE {SumLines(output.lines, 3, <<0, 0>>)}

\* stats_api: the stored TunnelStats (both byte counters 0, main never
\* writes them), overwritten by a successful sample when the slot is Some.
StatsResponse(slot, output) ==
    LET sample == IF slot THEN GetTrafficStats(output) ELSE {}
    IN  IF sample = {}
        THEN [bytes_sent |-> 0, bytes_received |-> 0]
        ELSE LET t == CHOOSE x \in sample : TRUE
             IN  [bytes_sent |-> t[1], bytes_received |-> t[2]]

MaxRows == 2

ByteCounts == {<<"0">>, <<"7">>, <<"1", "2">>}

Rows ==
    {Row(b, s, d) : b \in ByteCounts, s \in {AnyAddr, OriginAddr},
                    d \in {AnyAddr, OriginAddr}}

RowLists == UNION {[1..n -> Rows] : n \in 0..MaxRows}

Listings ==
    {[success |-> ok, lines |-> <<ChainHeader, ColumnHeader>> \o rows] :
        ok \in BOOLEAN, rows \in RowLists}

StatsInit ==
    /\ MainInit
    /\ dashboard
    /\ ~foreign
    /\ SubnetIdle
    /\ ConfigDone
    /\ NoLimits
    /\ KeysIdle
    /\ EndpointIdle
    /\ StartIdle
    /\ RulesIdle
    /\ TemplateIdle
    /\ state_tunnel \in BOOLEAN
    /\ listing \in Listings
    /\ response = {}

\* GET /api/stats
StatsApi ==
    /\ response = {}
    /\ response' = {StatsResponse(state_tunnel, listing)}
    /\ UNCHANGED <<mainVars, subnetVars, configVars, limitVars, keyVars, endpointVars, startVars, rulesVars,
                   templateVars, state_tunnel, listing>>

StatsNext == StatsApi

\* The rows of a listing: the indices of the lines after the two header
\* lines that carry a byte count.
RowsOf(lines) == {i \in 3..Len(lines) : ParseU64(lines[i].bytes) # {}}

\* Sum of the byte counts of the lines at the indices in S.
RECURSIVE ByteSum(_, _)
ByteSum(lines, S) ==
    IF S = {} THEN 0
    ELSE LET i == CHOOSE j \in S : TRUE
         IN  DecimalValue(lines[i].bytes) + ByteSum(lines, S \ {i})

ToOriginRow(r) == r.source = AnyAddr /\ r.destination # AnyAddr

FromOriginRow(r) == r.destination = AnyAddr /\ r.source # AnyAddr

\* C23: a successful sample reports as bytes_sent the bytes of the rows
\* whose source is 0.0.0.0/0 and whose destination is not, and as
\* bytes_received the bytes of the rows with the reverse asymmetry.
C23_StatsClassification ==
    \A r \in response :
        state_tunnel /\ listing.success =>
            LET lines == listing.lines
            IN  /\ r.bytes_sent =
                     ByteSum(lines, {i \in RowsOf(lines) :
                                        ToOriginRow(lines[i])})
                /\ r.bytes_received =
                     ByteSum(lines, {i \in RowsOf(lines) :
                                        FromOriginRow(lines[i])})

-----------------------------------------------------------------------------
(* Bandwidth preflight (main.rs): check_bandwidth_limit_requirements runs  *)
(* after args.validate() and before the service arm of main.               *)

\* is_kernel_module_loaded: Ok(lines.any(|line| line.starts_with(name)))
IsKernelModuleLoaded(lines, module_name) ==
    \E line \in lines : StartsWith(line, module_name)

\* The missing_modules vector of check_bandwidth_limit_requirements.
MissingModules(lines, down) ==
    (IF ~IsKernelModuleLoaded(lines, SchHtb) THEN <<"sch_htb">> ELSE <<>>)
    \o (IF down # {} /\ ~IsKernelModuleLoaded(lines, Ifb)
        THEN <<"ifb">> ELSE <<>>)
    \o (IF down # {} /\ ~IsKernelModuleLoaded(lines, ActMirred)
        THEN <<"act_mirred">> ELSE <<>>)

\* check_bandwidth_limit_requirements: a failed read of /proc/modules is
\* propagated by `?`, a non-empty missing_modules bails.
CheckBandwidthLimitRequirements(modules, up, down) ==
    IF ~modules.readable THEN "unreadable"
    ELSE IF MissingModules(modules.lines, down) # <<>> THEN "modules_missing"
    ELSE "passed"

\* A module whose name begins with the name of another one.
Ifb2 == <<"i", "f", "b", "2">>

ModuleNames == {SchHtb, Ifb, ActMirred, Ifb2}

ProcModules ==
    {[readable |-> TRUE, lines |-> {ModuleLine(n) : n \in loaded}] :
        loaded \in SUBSET ModuleNames}
    \cup {[readable |-> FALSE, lines |-> {}]}

PreflightInit ==
    /\ pc = "preflight"
    /\ LifecycleIdle
    /\ ~dashboard
    /\ ~foreign
    /\ SubnetIdle
    /\ cfg = DefaultCfg
    /\ verdict = "none"
    /\ port_mappings = <<>>
    /\ upload_limit \in Limits
    /\ download_limit \in Limits
    /\ StatsIdle
    /\ RulesIdle
    /\ TemplateIdle
    /\ KeysIdle
    /\ EndpointIdle
    /\ args_verdict = "ok"
    /\ proc_modules \in ProcModules
    /\ preflight = "none"

\* `if upload_limit.is_some() || download_limit.is_some() {
\*      check_bandwidth_limit_requirements(..).await?; }`
BandwidthPreflight ==
    /\ pc = "preflight"
    /\ preflight' = IF upload_limit # {} \/ download_limit # {}
                    THEN CheckBandwidthLimitRequirements(
                             proc_modules, upload_limit, download_limit)
                    ELSE "passed"
    /\ IF preflight' = "passed"
       THEN /\ pc' = "validate_all"
            /\ UNCHANGED <<exit, shutdownSeen, events, wgVars>>
       ELSE Return("FAILURE", events)
    /\ UNCHANGED <<dashboard, chanVars, rxNext, awsVars, proxyVars, waitVars,
                   cleanVars, wgUpProc, cancelledAt, subnetVars, configVars,
                   limitVars, keyVars, endpointVars, statsVars, rulesVars, templateVars,
                   args_verdict, proc_modules>>

\* main from the preflight up to the first remote call.
PreflightNext ==
    \/ BandwidthPreflight
    \/ ConfigNext

\* The name a line of /proc/modules lists: the characters before the first
\* space.
RECURSIVE FirstToken(_)
FirstToken(line) ==
    IF line = <<>> \/ Head(line) = " " THEN <<>>
    ELSE <<Head(line)>> \o FirstToken(Tail(line))

Listed(module_name) ==
    \E line \in proc_modules.lines : FirstToken(line) = module_name

RequiredListed ==
    /\ Listed(SchHtb)
    /\ download_limit # {} => Listed(Ifb) /\ Listed(ActMirred)

LimitRequested == upload_limit # {} \/ download_limit # {}

\* The run is past the preflight: main is at a later step, or got there
\* and ended.
PastPreflight == preflight = "passed"

NothingDone ==
    /\ pc = "done"
    /\ exit = "FAILURE"
    /\ events = <<>>
    /\ verdict = "none"
    /\ createReq = "idle"
    /\ wgUpProc = "none"
    /\ ~tunnel
    /\ ~ifaceUp

\* C24: with a limit requested the run passes the preflight only if
\* sch_htb, and with a download limit also ifb and act_mirred, are listed in
\* /proc/modules; otherwise the preflight fails and nothing else is done;
\* without a limit no module is required.
C24_BandwidthPreflight ==
    /\ (PastPreflight /\ LimitRequested) => RequiredListed
    /\ preflight \in {"modules_missing", "unreadable"} =>
           LimitRequested /\ NothingDone
    /\ (preflight # "none" /\ ~LimitRequested) => PastPreflight

-----------------------------------------------------------------------------
(* Bandwidth limits: args.validate() (config.rs) and the shaping rates     *)
(* OriginTunnel::setup writes (wireguard.rs).                              *)

\* The range test of one Option<u32> limit: no error is added.
LimitInRange(limit) == \A l \in limit : ~(l < 1 \/ l > 10000)

\* As ValidateCommandLine without the upper end of the range.
ValidateCommandLineNoCeiling(up, down) ==
    IF (\A l \in up : ~(l < 1)) /\ (\A l \in down : ~(l < 1))
    THEN "ok" ELSE "rejected"

\* Validate for CommandLine: Ok(()) when no error was added.
ValidateCommandLine(up, down) ==
    IF LimitInRange(up) /\ LimitInRange(down) THEN "ok" ELSE "rejected"

\* Limits around both ends of the accepted range, and the smallest limit
\* whose product with 1000 does not fit 32 bits.
WideLimits ==
    {{}, {0}, {1}, {2}, {10000}, {10001}, {4294968}}

ArgsInit ==
    /\ pc = "args_validate"
    /\ LifecycleIdle
    /\ ~dashboard
    /\ ~foreign
    /\ SubnetIdle
    /\ cfg = DefaultCfg
    /\ verdict = "none"
    /\ port_mappings \in MappingLists
    /\ upload_limit \in WideLimits
    /\ download_limit \in WideLimits
    /\ StatsIdle
    /\ RulesIdle
    /\ TemplateIdle
    /\ KeysIdle
    /\ EndpointIdle
    /\ args_verdict = "none"
    /\ proc_modules = [readable |-> TRUE,
                       lines |-> {ModuleLine(SchHtb), ModuleLine(Ifb),
                                  ModuleLine(ActMirred)}]
    /\ preflight = "none"

\* `args.validate().map_err(..)?`
ValidateArgs ==
    /\ pc = "args_validate"
    /\ args_verdict' = ValidateCommandLine(upload_limit, download_limit)
    /\ IF args_verdict' = "ok"
       THEN /\ pc' = "preflight"
            /\ UNCHANGED <<exit, shutdownSeen, events, wgVars>>
       ELSE Return("FAILURE", events)
    /\ UNCHANGED <<dashboard, chanVars, rxNext, awsVars, proxyVars, waitVars,
                   cleanVars, wgUpProc, cancelledAt, subnetVars, configVars,
                   limitVars, keyVars, endpointVars, statsVars, rulesVars, templateVars,
                   proc_modules, preflight>>

\* OriginTunnel::setup(.., upload_limit, download_limit) is called by main
\* only after args.validate() and the preflight returned Ok.
SetupConfig ==
    /\ args_verdict = "ok"
    /\ preflight = "passed"
    /\ WriteConfig

ArgsNext ==
    \/ ValidateArgs
    \/ BandwidthPreflight
    \/ SetupConfig

\* The rates of the `tc class add` lines written for the device.
ClassRates(dev) ==
    {post_up_rules[i].rate : i \in {j \in 1..Len(post_up_rules) :
        /\ post_up_rules[j].op = "tc class add"
        /\ post_up_rules[j].obj = dev}}

\* C25: a limit is accepted if and only if it is in 1..10000, and for every
\* accepted limit N the class rate written to the configuration is N * 1000,
\* a product below 2^32 (N * 250 < 2^30).
C25_LimitRange ==
    /\ args_verdict # "none" =>
          (args_verdict = "ok" <=>
              \A l \in upload_limit \cup download_limit : 1 <= l /\ l <= 10000)
    /\ wgStage = "config" =>
          /\ \A l \in upload_limit :
                l * 250 < 2^30 /\ ClassRates("wg0 root") = {l * 1000}
          /\ \A l \in download_limit :
                l * 250 < 2^30 /\ ClassRates("ifb0 root") = {l * 1000}

C25_Witness ==
    /\ wgStage = "config"
    /\ upload_limit = {10000}
    /\ download_limit = {1}
    /\ ClassRates("wg0 root") = {10000000}

-----------------------------------------------------------------------------
(* Endpoint::parse on the text of an argument (config.rs).  url::Url::parse *)
(* is modelled for the texts used here: a scheme up to the first ":", then *)
(* after "//" an authority of host and optional ":port" up to the next     *)
(* "/".  tcp, udp and tls are not special schemes: their host is kept as   *)
(* written and no port is a default port.                                  *)

UpperChars ==
    <<"A", "B", "C", "D", "E", "F", "G", "H", "I", "J", "K", "L", "M",
      "N", "O", "P", "Q", "R", "S", "T", "U", "V", "W", "X", "Y", "Z">>

LowerChars ==
    <<"a", "b", "c", "d", "e", "f", "g", "h", "i", "j", "k", "l", "m",
      "n", "o", "p", "q", "r", "s", "t", "u", "v", "w", "x", "y", "z">>

IsLetter(c) == \E i \in 1..26 : UpperChars[i] = c \/ LowerChars[i] = c

\* to_lowercase of one character
LowerChar(c) ==
    IF \E i \in 1..26 : UpperChars[i] = c
    THEN LowerChars[CHOOSE i \in 1..26 : UpperChars[i] = c]
    ELSE c

Lower(s) == [i \in 1..Len(s) |-> LowerChar(s[i])]

\* Position of the first occurrence of c in s, Len(s) + 1 if there is none.
IndexOf(s, c) ==
    IF \E i \in 1..Len(s) : s[i] = c
    THEN CHOOSE i \in 1..Len(s) : s[i] = c /\ \A j \in 1..(i - 1) : s[j] # c
    ELSE Len(s) + 1

UrlError == [ok |-> FALSE, scheme |-> <<>>, host |-> {}, port |-> {}]

\* The port of an authority, from the text after its ":": empty is no port,
\* a non-digit or a value above u16 is an error; 80 taken as a default port.
UrlPortDefault80(text) ==
    IF text = <<>> THEN [ok |-> TRUE, port |-> {}]
    ELSE IF ParseU64(text) = {} \/ DecimalValue(text) > 65535
    THEN [ok |-> FALSE, port |-> {}]
    ELSE [ok |-> TRUE, port |-> {DecimalValue(text)} \ {80}]

\* The port of an authority, from the text after its ":": empty is no port,
\* a non-digit or a value above u16 is an error.
UrlPort(text) ==
    IF text = <<>> THEN [ok |-> TRUE, port |-> {}]
    ELSE IF ParseU64(text) = {} \/ DecimalValue(text) > 65535
    THEN [ok |-> FALSE, port |-> {}]
    ELSE [ok |-> TRUE, port |-> {DecimalValue(text)}]

\* url::Url::parse(s): scheme(), host_str() and port() of the result.
UrlParse(s) ==
    LET colon  == IndexOf(s, ":")
        scheme == SubSeq(s, 1, colon - 1)
        rest   == SubSeq(s, colon + 1, Len(s))
    IN  IF colon > Len(s) \/ scheme = <<>> \/ ~IsLetter(scheme[1])
        THEN UrlError
        ELSE IF ~StartsWith(rest, <<"/", "/">>)
        THEN [ok |-> TRUE, scheme |-> Lower(scheme), host |-> {}, port |-> {}]
        ELSE LET after     == SubSeq(rest, 3, Len(rest))
                 authority == SubSeq(after, 1, IndexOf(after, "/") - 1)
                 sep       == IndexOf(authority, ":")
                 name      == SubSeq(authority, 1, sep - 1)
                 number    == UrlPort(SubSeq(authority, sep + 1, Len(authority)))
             IN  IF sep <= Len(authority) /\ name = <<>> THEN UrlError
                 ELSE IF ~number.ok THEN UrlError
                 ELSE [ok |-> TRUE, scheme |-> Lower(scheme),
                       host |-> IF name = <<>> THEN {} ELSE {name},
                       port |-> number.port]

TcpChars == <<"t", "c", "p">>

UdpChars == <<"u", "d", "p">>

TlsChars == <<"t", "l", "s">>

\* url.scheme() as the name the endpoint records carry.
SchemeName(scheme) ==
    IF scheme = TcpChars THEN "tcp"
    ELSE IF scheme = UdpChars THEN "udp"
    ELSE IF scheme = TlsChars THEN "tls"
    ELSE "other"

\* Endpoint::parse(s, require_port) on the text s: the Url is parsed, then
\* EndpointParse decides on its scheme, host and port.
EndpointParseText(s, require_port) ==
    LET url == UrlParse(s)
        e   == EndpointParse([scheme |-> SchemeName(url.scheme),
                              host |-> url.host # {},
                              port |-> url.port], require_port)
    IN  IF url.ok /\ e.ok
        THEN [ok |-> TRUE, protocol |-> e.protocol, host |-> url.host,
              port |-> e.port]
        ELSE [ok |-> FALSE, protocol |-> "", host |-> {}, port |-> {}]

\* "<proto>://<host>:<port>"
FormatEndpoint(proto, name, number) ==
    proto \o <<":", "/", "/">> \o name \o <<":">> \o Decimal(number)

\* The text an argument is composed of.
Compose(a) == a.scheme \o a.sep \o a.host \o a.port

Hosts == {<<"a">>, <<"a", ".", "b">>, <<"A">>, OriginAddr}

Ports == {0, 80, 443, 65535}

Schemes ==
    {TcpChars, UdpChars, TlsChars, <<"T", "C", "P">>, <<"s", "c", "t", "p">>,
     <<"h", "t", "t", "p">>, <<>>}

PortTexts ==
    {<<>>, <<":">>, <<":", "0", "8", "0">>, <<":", "8", "a">>,
     <<":", "6", "5", "5", "3", "6">>, <<":", "8", "0", "/", "x">>}
    \cup {<<":">> \o Decimal(n) : n \in Ports}

EndpointArgs ==
    [scheme : Schemes, sep : {<<":", "/", "/">>, <<":">>},
     host : Hosts \cup {<<>>}, port : PortTexts]

EndpointInit ==
    /\ MainInit
    /\ ~dashboard
    /\ ~foreign
    /\ SubnetIdle
    /\ ConfigDone
    /\ NoLimits
    /\ KeysIdle
    /\ StartIdle
    /\ StatsIdle
    /\ RulesIdle
    /\ TemplateIdle
    /\ arg_parts \in EndpointArgs
    /\ need_port \in BOOLEAN
    /\ parse_result = {}

\* Endpoint::parse(&arg, require_port)
ParseEndpoint ==
    /\ parse_result = {}
    /\ parse_result' = {EndpointParseText(Compose(arg_parts), need_port)}
    /\ UNCHANGED <<mainVars, subnetVars, configVars, limitVars, keyVars, startVars,
                   statsVars, rulesVars, templateVars, arg_parts, need_port>>

EndpointNext == ParseEndpoint

\* C26: Endpoint::parse of "<proto>://<host>:<port>" succeeds with exactly
\* that protocol, host and port for every protocol of tcp, udp, tls; it fails
\* for an unknown scheme, for a missing host, and for a missing port when
\* require_port is set.
C26_EndpointRoundTrip ==
    \A e \in parse_result :
        /\ \A proto \in {TcpChars, UdpChars, TlsChars}, h \in Hosts, p \in Ports :
              Compose(arg_parts) = FormatEndpoint(proto, h, p) =>
                  e = [ok |-> TRUE, protocol |-> SchemeName(proto),
                       host |-> {h}, port |-> {p}]
        /\ Lower(arg_parts.scheme) \notin {TcpChars, UdpChars, TlsChars} => ~e.ok
        /\ arg_parts.host = <<>> => ~e.ok
        /\ (need_port /\ arg_parts.port \in {<<>>, <<":">>}) => ~e.ok

C26_Witness ==
    /\ Compose(arg_parts) = FormatEndpoint(TlsChars, <<"a", ".", "b">>, 443)
    /\ need_port
    /\ \E e \in parse_result : e.ok /\ e.port = {443}

-----------------------------------------------------------------------------
(* wait_for_completion on every stack status (aws/mod.rs): the poll loop   *)
(* started on a stack in any state the service can report.                 *)

\* aws_sdk_cloudformation::types::StackStatus
StackStatuses ==
    {"CREATE_COMPLETE", "CREATE_FAILED", "CREATE_IN_PROGRESS",
     "DELETE_COMPLETE", "DELETE_FAILED", "DELETE_IN_PROGRESS",
     "IMPORT_COMPLETE", "IMPORT_IN_PROGRESS", "IMPORT_ROLLBACK_COMPLETE",
     "IMPORT_ROLLBACK_FAILED", "IMPORT_ROLLBACK_IN_PROGRESS",
     "REVIEW_IN_PROGRESS", "ROLLBACK_COMPLETE", "ROLLBACK_FAILED",
     "ROLLBACK_IN_PROGRESS", "UPDATE_COMPLETE",
     "UPDATE_COMPLETE_CLEANUP_IN_PROGRESS", "UPDATE_FAILED",
     "UPDATE_IN_PROGRESS", "UPDATE_ROLLBACK_COMPLETE",
     "UPDATE_ROLLBACK_COMPLETE_CLEANUP_IN_PROGRESS",
     "UPDATE_ROLLBACK_FAILED", "UPDATE_ROLLBACK_IN_PROGRESS"}

\* main inside proxy.wait_for_completion(): deploy returned the handle.
WaitInit ==
    /\ pc = "wait_describe"
    /\ exit = "running"
    /\ dashboard = FALSE
    /\ supervisor = "listening"
    /\ chanTail = 0
    /\ chanClosed = FALSE
    /\ rxNext = 0
    /\ shutdownSeen = FALSE
    /\ foreign = FALSE
    /\ stack \in StackStatuses \cup {"NONE"}
    /\ createReq = "accepted"
    /\ created = TRUE
    /\ proxy = "handle"
    /\ instance_id = ""
    /\ launch_time = ""
    /\ waitResult = "none"
    /\ waitLastResp = "none"
    /\ waitError = "none"
    /\ deleteCalls = 0
    /\ cleanupResult = "none"
    /\ cleanupLastResp = "none"
    /\ wgUpProc = "none"
    /\ ifaceUp = FALSE
    /\ tunnel = FALSE
    /\ wgDownCalls = 0
    /\ scratch = FALSE
    /\ events = <<"CreateStack">>
    /\ firedAt = "none"
    /\ cancelledAt = "none"
    /\ signals = 0
    /\ SubnetIdle
    /\ ConfigDone
    /\ NoLimits
    /\ KeysIdle
    /\ EndpointIdle
    /\ StartIdle
    /\ StatsIdle
    /\ RulesIdle
    /\ TemplateIdle

WaitNext ==
    \/ WaitDescribe
    \/ WaitSleep
    \/ WaitLaunch
    \/ AwsProgress

\* C28: of the polled statuses CREATE_COMPLETE alone leads to success (with
\* both outputs extracted and the launch time read), CREATE_IN_PROGRESS and
\* DELETE_IN_PROGRESS lead to the sleep and the next poll, CREATE_FAILED,
\* ROLLBACK_*, DELETE_FAILED and DELETE_COMPLETE fail with the status
\* reason, and every other status fails as unexpected.
C28_WaitClassification ==
    LET polling  == {"CREATE_IN_PROGRESS", "DELETE_IN_PROGRESS"}
        failing  == {"CREATE_FAILED", "ROLLBACK_COMPLETE", "ROLLBACK_FAILED",
                     "ROLLBACK_IN_PROGRESS", "DELETE_FAILED",
                     "DELETE_COMPLETE"}
        others   == StackStatuses \ (polling \cup failing \cup {"CREATE_COMPLETE"})
    IN  /\ waitResult = "ok" =>
               /\ waitLastResp = "CREATE_COMPLETE"
               /\ instance_id = "set"
               /\ launch_time = "set"
        /\ waitLastResp = "CREATE_COMPLETE" =>
               \/ pc = "wait_launch" /\ waitResult = "none"
               \/ waitResult = "ok"
               \/ waitError \in {"fail_outputs", "fail_launch_time"}
        /\ waitLastResp \in polling =>
               waitResult = "none" /\ pc \in {"wait_sleep", "wait_describe"}
        /\ pc = "wait_sleep" => waitLastResp \in polling
        /\ waitLastResp \in failing =>
               waitResult = "err" /\ waitError = "fail_status"
        /\ waitLastResp \in others =>
               waitResult = "err" /\ waitError = "fail_unexpected"

C28_Witness ==
    /\ waitLastResp = "ROLLBACK_IN_PROGRESS"
    /\ waitResult = "err"
    /\ waitError = "fail_status"

-----------------------------------------------------------------------------
(* cleanup() on every stack status (aws/mod.rs): main is inside            *)
(* proxy.cleanup(), either at its DeleteStack call or polling, and the     *)
(* service reports the stack of that name in any state (a stack of the     *)
(* same name may have been created since, or the read may be stale).       *)

CleanupInit ==
    /\ pc \in {"cleanup_delete", "cleanup_describe"}
    /\ exit = "running"
    /\ dashboard = FALSE
    /\ supervisor = "done"
    /\ chanTail = 1
    /\ chanClosed = TRUE
    /\ rxNext = 0
    /\ shutdownSeen = FALSE
    /\ foreign = FALSE
    /\ stack \in StackStatuses \cup {"NONE"}
    /\ createReq = "accepted"
    /\ created = TRUE
    /\ proxy = "handle"
    /\ instance_id = ""
    /\ launch_time = ""
    /\ waitResult = "none"
    /\ waitLastResp = "none"
    /\ waitError = "none"
    /\ deleteCalls = 1
    /\ cleanupResult = "none"
    /\ cleanupLastResp = "none"
    /\ wgUpProc = "none"
    /\ ifaceUp = FALSE
    /\ tunnel = FALSE
    /\ wgDownCalls = 0
    /\ scratch = FALSE
    /\ events = <<"CreateStack", "DeleteStack">>
    /\ firedAt = "wait_describe"
    /\ cancelledAt = "wait_describe"
    /\ signals = 1
    /\ SubnetIdle
    /\ ConfigDone
    /\ NoLimits
    /\ KeysIdle
    /\ EndpointIdle
    /\ StartIdle
    /\ StatsIdle
    /\ RulesIdle
    /\ TemplateIdle

CleanupNext ==
    \/ CleanupDelete
    \/ CleanupDescribe
    \/ CleanupSleep
    \/ AwsProgress

\* C29: cleanup() polls only after DeleteStack was issued, keeps polling on
\* CREATE_IN_PROGRESS and DELETE_IN_PROGRESS, and returns success when it
\* observes DELETE_COMPLETE or finds the stack gone.
C29_CleanupPolling ==
    /\ (pc \in {"cleanup_describe", "cleanup_sleep"} \/ cleanupLastResp # "none")
           => \E i \in 1..Len(events) : events[i] = "DeleteStack"
    /\ cleanupLastResp \in {"CREATE_IN_PROGRESS", "DELETE_IN_PROGRESS"} =>
           /\ cleanupResult = "none"
           /\ pc \in {"cleanup_sleep", "cleanup_describe"}
    /\ cleanupLastResp \in {"DELETE_COMPLETE", "ERR_DISAPPEARED"} =>
           cleanupResult = "ok"

-----------------------------------------------------------------------------
(* The tunnel handle: OriginTunnel::setup inside its select!, and Drop *)

\* main at the setup select: wait_for_completion returned the proxy address,
\* and setup is called with every mapping list of MappingLists.
TunnelInit ==
    /\ pc = "setup_which"
    /\ exit = "running"
    /\ dashboard \in BOOLEAN
    /\ supervisor = "listening"
    /\ chanTail = 0
    /\ chanClosed = FALSE
    /\ rxNext = 0
    /\ shutdownSeen = FALSE
    /\ foreign = FALSE
    /\ stack = "CREATE_COMPLETE"
    /\ createReq = "accepted"
    /\ created = TRUE
    /\ proxy = "handle"
    /\ instance_id = "set"
    /\ launch_time = "set"
    /\ waitResult = "ok"
    /\ waitLastResp = "CREATE_COMPLETE"
    /\ waitError = "none"
    /\ deleteCalls = 0
    /\ cleanupResult = "none"
    /\ cleanupLastResp = "none"
    /\ wgUpProc = "none"
    /\ ifaceUp = FALSE
    /\ tunnel = FALSE
    /\ wgDownCalls = 0
    /\ scratch = TRUE
    /\ events = <<"CreateStack">>
    /\ firedAt = "none"
    /\ cancelledAt = "none"
    /\ signals = 0
    /\ SubnetIdle
    /\ cfg = DefaultCfg
    /\ verdict = "ok"
    /\ port_mappings \in MappingLists
    /\ NoLimits
    /\ KeysIdle
    /\ EndpointIdle
    /\ StartIdle
    /\ StatsIdle
    /\ RulesIdle
    /\ TemplateIdle

TunnelNext ==
    \/ Signal
    \/ LateSignal
    \/ SetupWhich
    \/ SetupUp
    \/ CancelSetup
    \/ WgQuickUpRun
    \/ DashBind
    \/ ServeShutdown
    \/ IdleShutdown
    \/ CleanupDelete
    \/ CleanupDescribe
    \/ CleanupSleep
    \/ AwsProgress

\* How often call e occurs in the log of the run.
Occurrences(e) == Cardinality({i \in 1..Len(events) : events[i] = e})

\* C32: a tunnel handle exists only after `wg-quick up` exited successfully;
\* when setup fails (empty mapping list, protocol other than tcp / udp,
\* wg-quick not found, bring-up failed) there is no handle; at most one
\* handle is ever built; dropping the handle runs `wg-quick down` exactly
\* once and removes the scratch directory, and no handle outlives main.
C32_TunnelHandleLifecycle ==
    /\ [](/\ tunnel => (wgUpProc = "ok" /\ scratch)
          /\ SetupBails(port_mappings) => (~tunnel /\ wgUpProc = "none")
          /\ Occurrences("WgQuickUp") = 0 => ~tunnel
          /\ wgUpProc = "failed" => ~tunnel
          /\ Occurrences("TunnelUp") <= 1
          /\ pc = "done" =>
                 /\ ~tunnel
                 /\ ~scratch
                 /\ wgDownCalls = Occurrences("TunnelUp"))
    /\ [][/\ (tunnel /\ ~tunnel') =>
                 /\ wgDownCalls' = wgDownCalls + 1
                 /\ events' = Append(events, "WgDown")
                 /\ ~scratch'
          /\ wgDownCalls' # wgDownCalls => (tunnel /\ ~tunnel')]_vars

\* C32 witness: a handle was built and dropped; `wg-quick down` ran once.
C32_Witness ==
    /\ pc = "done"
    /\ Occurrences("TunnelUp") = 1
    /\ wgDownCalls = 1
    /\ ~scratch

-----------------------------------------------------------------------------
(* The stack handle's metadata *)

\* C33: instance_id and launch_time are empty from the creation of the
\* handle until wait_for_completion has seen CREATE_COMPLETE; they are
\* written at most once, in the same step, and are non-empty exactly when
\* wait_for_completion returned Ok -- a missing output or a failed
\* launch-time lookup leaves both empty.
C33_HandleMetadata ==
    /\ [](/\ (instance_id = "") <=> (launch_time = "")
          /\ (instance_id # "") <=> (waitResult = "ok")
          /\ instance_id # "" => (proxy = "handle" /\ waitLastResp = "CREATE_COMPLETE")
          /\ waitError \in {"fail_outputs", "fail_launch_time"} =>
                 (instance_id = "" /\ launch_time = ""))
    /\ [][(instance_id' # instance_id \/ launch_time' # launch_time) =>
              /\ instance_id = ""
              /\ launch_time = ""
              /\ instance_id' # ""
              /\ launch_time' # ""
              /\ waitLastResp = "CREATE_COMPLETE"]_vars

\* C33 witness: wait_for_completion returned Ok and the metadata is stored.
C33_Witness ==
    /\ waitResult = "ok"
    /\ instance_id = "set"
    /\ launch_time = "set"
    /\ pc = "setup_which"

-----------------------------------------------------------------------------
(* The tunnel reference shared with the dashboard *)

\* The AppState given to the router lives as long as the router: from its
\* construction until axum::serve has returned or main returns.
AppStateAlive == dashboard /\ pc \in {"dash_bind", "serve"}

\* C34: on shutdown of a build with the dashboard, when main drops the handle
\* it owns, the tunnel slot of AppState has been emptied before, and the drop
\* runs the teardown (`wg-quick down`).
C34_SlotEmptiedBeforeDrop ==
    [][(dashboard /\ cancelledAt = "serve" /\ tunnel /\ ~tunnel') =>
           /\ ~state_tunnel
           /\ wgDownCalls' = wgDownCalls + 1]_vars

-----------------------------------------------------------------------------
(* The boot script *)

\* The text `sub` stands in `text` from piece p on.
OccursAt(text, sub, p) ==
    /\ p + Len(sub) - 1 <= Len(text)
    /\ SubSeq(text, p, p + Len(sub) - 1) = sub

Pieces(text) == {text[i] : i \in 1..Len(text)}

\* C35: the rendered boot script contains, for every port mapping of the
\* template and in list order, an entry
\* `{ port = <port>; protocol = "<protocol in lower case>"; }`; an empty list
\* is rendered as `[ ]`; and the script contains `debug = true` if and only
\* if the debug flag is set, `debug = false` otherwise.
C35_BootScriptRendering ==
    template # {} =>
        /\ \E at \in [1..Len(port_mappings) -> 1..Len(userdata)] :
               /\ \A i \in 1..Len(port_mappings) :
                      OccursAt(userdata,
                               NixMapping(port_mappings[i].port,
                                          ToLowercase(port_mappings[i].protocol)),
                               at[i])
               /\ \A i, j \in 1..Len(port_mappings) : i < j => at[i] < at[j]
        /\ port_mappings = <<>> => "[ ]" \in Pieces(userdata)
        /\ "debug = true" \in Pieces(userdata) <=> debug
        /\ "debug = false" \in Pieces(userdata) <=> ~debug

\* C35 witness: a script rendered for two mappings, the first given in upper
\* case, with the debug flag set.
C35_Witness ==
    /\ template # {}
    /\ Len(port_mappings) = 2
    /\ port_mappings[1].protocol = "TCP"
    /\ debug
    /\ "debug = true" \in Pieces(userdata)

-----------------------------------------------------------------------------
(* Termination after shutdown *)

\* A step of the main task: every action of Next but the signals and the
\* environment's.
MainStep ==
    \/ KeyGen
    \/ PickSubnet
    \/ IpDetect
    \/ CancelIpDetect
    \/ DeployZone
    \/ DeployAmi
    \/ DeployCreated
    \/ CancelDeploy
    \/ WaitDescribe
    \/ WaitSleep
    \/ WaitLaunch
    \/ CancelWait
    \/ SetupWhich
    \/ SetupUp
    \/ CancelSetup
    \/ DashBind
    \/ ServeShutdown
    \/ IdleShutdown
    \/ CleanupDelete
    \/ CleanupDescribe
    \/ CleanupSleep

\* The runtime keeps polling the main task while it can advance; every
\* external call returns (the service answers CreateStack, the `wg-quick up`
\* child exits), and a stack in progress reaches its next status.
Fairness ==
    /\ WF_vars(MainStep)
    /\ WF_vars(AwsCreateStack)
    /\ WF_vars(AwsProgress)
    /\ WF_vars(WgQuickUpRun)

\* C36: once the shutdown broadcast is published the process eventually
\* exits, and it does not exit leaving behind a stack that this run created:
\* a DeleteStack was issued for it.
C36_ShutdownTearsDownAndExits ==
    /\ (chanTail > 0) ~> (pc = "done")
    /\ []((pc = "done" /\ chanTail > 0 /\ created) => deleteCalls >= 1)

-----------------------------------------------------------------------------
(* C37: a shutdown is never lost *)

\* The awaits of main that sit in a select! with a shutdown branch.
SelectPcs == {"ip_detect"} \cup DeployPcs \cup WaitPcs \cup SetupPcs

\* The awaits at which main can be stopped by the broadcast: the selects,
\* the dashboard's graceful shutdown and the final recv().
CancellablePcs == SelectPcs \cup {"serve", "idle"}

-----------------------------------------------------------------------------
(* C38: the tunnel is not left up at exit *)

\* C38: when the process has exited the wg0 interface is down: a
\* `wg-quick up` that was started and succeeded, also one still running
\* when shutdown cancelled the tunnel setup, has been answered by a
\* `wg-quick down` before the exit.
C38_TunnelNotLeftUp ==
    pc = "done" =>
        /\ ~ifaceUp
        /\ wgUpProc = "ok" => wgDownCalls >= 1

-----------------------------------------------------------------------------
(* C39: DeleteStack only for the stack of this run *)

\* C39: a run issues DeleteStack at most once, and only through the handle
\* that deploy returned after CreateStack was accepted in this run; when
\* zone validation, the image lookup or CreateStack fails there is no
\* handle and no DeleteStack, and a stack of the same name that existed
\* before the run is left as it was.
C39_DeleteOnlyOwnStack ==
    /\ deleteCalls <= 1
    /\ deleteCalls >= 1 =>
           /\ proxy = "handle"
           /\ createReq = "accepted"
           /\ created
    /\ foreign => (deleteCalls = 0 /\ stack = "CREATE_COMPLETE")

\* A stack of the same name existed: CreateStack was rejected, main exited
\* with the error and issued no DeleteStack.
C39_Witness ==
    /\ pc = "done"
    /\ foreign
    /\ createReq = "rejected"
    /\ exit = "FAILURE"
    /\ events = <<"CreateStack">>

-----------------------------------------------------------------------------
(* C40: which key goes where *)

\* main after WireGuardPair::generate, for every generated pair: the
\* template is rendered for the stack request and setup writes wg0.conf.
KeyInit ==
    /\ MainInit
    /\ ~dashboard
    /\ ~foreign
    /\ SubnetIdle
    /\ cfg = DefaultCfg
    /\ verdict = "ok"
    /\ port_mappings \in MappingLists
    /\ NoLimits
    /\ RulesIdle
    /\ TemplateIdle
    /\ EndpointIdle
    /\ StartIdle
    /\ StatsIdle
    /\ wg_keys \in GeneratedPairs
    /\ userdata = <<>>
    /\ wg_conf = {}

KeyNext ==
    \/ RenderTemplate
    \/ WriteConfig

\* Every preshared key and every private key a run can hold.
AllPresharedKeys ==
    {k.preshared_key : k \in GeneratedKeys("origin") \cup GeneratedKeys("proxy")}

\* C40: the boot script of the stack request carries the proxy's private
\* key, the origin's public key and the origin's preshared key P, and no
\* other preshared key; wg0.conf on the origin carries the origin's private
\* key, the proxy's public key and the same P; the origin's private key is
\* not in the boot script, and the boot script is the same for every origin
\* private key when the other arguments of deploy are held fixed.
C40_KeyWiring ==
    /\ template # {} =>
           /\ wg_keys.proxy.private_key \in Pieces(userdata)
           /\ wg_keys.origin.public_key \in Pieces(userdata)
           /\ Pieces(userdata) \cap AllPresharedKeys = {wg_keys.origin.preshared_key}
           /\ wg_keys.origin.private_key \notin Pieces(userdata)
           /\ \A o \in GeneratedKeys("origin") :
                  GenerateUserdata(TemplateOf(
                      [wg_keys EXCEPT !.origin.private_key = o.private_key],
                      port_mappings, debug)) = userdata
    /\ \A c \in wg_conf :
           /\ c.PrivateKey = wg_keys.origin.private_key
           /\ c.PublicKey = wg_keys.proxy.public_key
           /\ c.PresharedKey = wg_keys.origin.preshared_key
           /\ template # {} => c.PresharedKey \in Pieces(userdata)

\* Both sides are configured from a pair other than the first draws: the
\* boot script is rendered and wg0.conf written.
C40_Witness ==
    /\ template # {}
    /\ wg_conf # {}
    /\ wg_keys.origin.private_key = "origin-private-2"
    /\ wg_keys.origin.preshared_key = "psk-2"
    /\ wg_keys.proxy.preshared_key = "psk-4"
    /\ "psk-2" \in Pieces(userdata)

-----------------------------------------------------------------------------

Next ==
    \/ Signal
    \/ LateSignal
    \/ KeyGen
    \/ PickSubnet
    \/ IpDetect
    \/ CancelIpDetect
    \/ DeployZone
    \/ DeployAmi
    \/ DeployCreated
    \/ CancelDeploy
    \/ WaitDescribe
    \/ WaitSleep
    \/ WaitLaunch
    \/ CancelWait
    \/ SetupWhich
    \/ SetupUp
    \/ CancelSetup
    \/ DashBind
    \/ ServeShutdown
    \/ IdleShutdown
    \/ CleanupDelete
    \/ CleanupDescribe
    \/ CleanupSleep
    \/ AwsCreateStack
    \/ AwsProgress
    \/ WgQuickUpRun

Spec == Init /\ [][Next]_vars

\* The subnet picker run on every host of HostSets.
SubnetSpec == SubnetInit /\ [][SubnetNext]_vars

\* main from validate_all to the first remote call, on every configuration.
ConfigSpec == ConfigInit /\ [][ConfigNext]_vars

\* The rule lists of setup and their runs, on every mapping list and limits.
RulesSpec == RulesInit /\ [][RulesNext]_vars

\* The template rendered for every mapping list, debug and CDN option.
TemplateSpec == TemplateInit /\ [][TemplateNext]_vars

\* get_architecture on every instance type of InstanceTypes.
ArchSpec == ArchInit /\ [][ArchNext]_vars

StatsSpec == StatsInit /\ [][StatsNext]_vars

PreflightSpec == PreflightInit /\ [][PreflightNext]_vars

ArgsSpec == ArgsInit /\ [][ArgsNext]_vars

EndpointSpec == EndpointInit /\ [][EndpointNext]_vars

WaitSpec == WaitInit /\ [][WaitNext]_vars

CleanupSpec == CleanupInit /\ [][CleanupNext]_vars

\* main from the setup select to its return, on every mapping list.
TunnelSpec == TunnelInit /\ [][TunnelNext]_vars

\* The lifecycle under fair scheduling of the main task and its environment.
LiveSpec == Spec /\ Fairness

\* Rendering the template and writing wg0.conf for every generated key pair.
KeySpec == KeyInit /\ [][KeyNext]_vars

====
